---------------------------- MODULE Spec2Model ----------------------------
(***************************************************************************)
(* Model of the trade-statistics ingestion pipeline:                       *)
(*   - the Orchestrator (run_pipeline.py: DataPipeline and main),          *)
(*   - the Cleaner (data_cleaner.py: DataCleaner),                         *)
(*   - the Validator (data_validator.py: ValidationResult, DataValidator). *)
(* Text is modelled as a sequence of one-character strings.  Characters    *)
(* outside ASCII are written by name: "nian" is U+5E74 (the year marker),  *)
(* "yue" is U+6708 (the month marker), and so on.                          *)
(***************************************************************************)
EXTENDS Integers, Sequences, FiniteSets, TLC

VARIABLES
    env,                \* what the disk holds for each table: the stage that raises, the validation verdict
    pc,                 \* position of the Orchestrator: main, loop, load, clean, transform, validate, export, report, exit
    table_ids,          \* the list handed to process_multiple_tables
    validate_only,      \* DataPipeline.validate_only
    idx,                \* position of the for loop of process_multiple_tables (1-based)
    results,            \* DataPipeline.results: table id -> [success]
    validation_results, \* DataPipeline.validation_results: table id -> [passed]
    run_results,        \* the map built and returned by process_multiple_tables
    export_calls,       \* table ids for which export_all_formats has been invoked
    log,                \* the stage lines written to the logger, in order
    summary,            \* the counts of generate_summary_report
    exit_code,          \* status given to sys.exit, -1 while the process runs
    raw_df,             \* the table handed to the Cleaner
    c_table_id,         \* the table identifier handed to the Cleaner
    c_op,               \* the DataCleaner method applied last ("none" before any)
    out_df,             \* the table that method returned
    first_df,           \* the table returned by the first clean_dataframe pass
    passes,             \* number of clean_dataframe passes applied
    c_raised,           \* whether the DataCleaner method applied last raised instead of returning
    vr,                 \* a ValidationResult: passed, errors, warnings
    vr_calls,           \* the add_error / add_warning calls made on vr, in order
    v_df,               \* the table handed to the Validator
    v_table_id,         \* the table identifier handed to the Validator
    v_op,               \* the DataValidator method applied ("none" before any)
    v_result,           \* what that method returned
    v_rules,            \* the rules argument handed to validate_dataframe
    t_df,               \* the table handed to the Transformer
    t_op,               \* the DataTransformer method applied ("none" before any)
    t_args,             \* the column arguments of that call
    t_out,              \* what that method returned
    t_raised,           \* whether that method raised instead of returning
    x_fails,            \* for each table, the formats whose write fails on this disk
    x_table_ids,        \* the tables handed to process_multiple_tables
    x_formats,          \* export_formats: the request list, or "None"
    x_validate_only,    \* DataPipeline.validate_only of the run
    x_idx,              \* position of the loop over x_table_ids (1-based)
    x_pc,               \* position inside export_all_formats for the current table
    x_files,            \* the files on disk, each a pair of table id and format
    x_writes,           \* the writes attempted, in order, each a pair of table id and format
    x_paths,            \* the keys of output_paths, per table that export_all_formats returned for
    x_results,          \* what process_table returned, per table
    s_sheet,            \* the first cells of the rows of the worksheet, top down
    s_op,               \* the ExcelLoader method applied ("none" before any)
    s_out,              \* the pair (header_row, data_row) it returned
    k_now,              \* the clock, in seconds
    k_last_update,      \* the time of the last cache update, -1 for None
    k_ttl,              \* ttl_seconds
    k_refresh           \* what should_refresh_cache returned ("none" before any call)

pipe_vars == <<env, pc, table_ids, validate_only, idx, results, validation_results,
               run_results, export_calls, log, summary, exit_code>>

clean_vars == <<raw_df, c_table_id, c_op, out_df, first_df, passes, c_raised>>

result_vars == <<vr, vr_calls>>

valid_vars == <<v_df, v_table_id, v_op, v_result, v_rules>>

trans_vars == <<t_df, t_op, t_args, t_out, t_raised>>

export_vars == <<x_fails, x_table_ids, x_formats, x_validate_only, x_idx, x_pc, x_files,
                 x_writes, x_paths, x_results>>

sheet_vars == <<s_sheet, s_op, s_out>>

cache_vars == <<k_now, k_last_update, k_ttl, k_refresh>>

\* the parts modelled first, and the parts modelled after them
early_vars == <<pipe_vars, clean_vars, result_vars, valid_vars>>

late_vars == <<trans_vars, export_vars, sheet_vars, cache_vars>>

vars == <<early_vars, late_vars>>

(***************************************************************************)
(* Bounds of the model.                                                    *)
(***************************************************************************)
MaxTables == 3

\* longest first-cell text enumerated exhaustively over Alphabet
MaxTokenLen == 3

\* most rows of an enumerated raw table
MaxRows == 2

(***************************************************************************)
(* Text                                                                    *)
(***************************************************************************)

\* characters of the Cleaner's literals, by name
NIAN == "nian"      \* U+5E74, the year marker
YUE == "yue"        \* U+6708, the month marker
ZENG == "zeng"      \* U+589E
LYU == "lyu"        \* U+7387
ZHAN == "zhan"      \* U+5360
ZONG == "zong"      \* U+7E3D
CHU == "chu"        \* U+51FA
KOU == "kou"        \* U+53E3
BI == "bi"          \* U+6BD4
JIN == "jin"        \* U+91D1
E_AMOUNT == "e"     \* U+984D
JIAO == "jiao"      \* U+8F03
SHANG == "shang"    \* U+4E0A
JIAN == "jian"      \* U+6E1B
FWSP == "fwsp"      \* U+3000, the full-width space

DigitChars == <<"0", "1", "2", "3", "4", "5", "6", "7", "8", "9">>

IsDigit(c) == \E d \in 1..Len(DigitChars) : DigitChars[d] = c

DigitVal(c) == (CHOOSE d \in 1..Len(DigitChars) : DigitChars[d] = c) - 1

\* str.isspace for the characters of the model
IsSpace(c) == c \in {" ", FWSP}

\* c in s
Has(s, c) == \E i \in 1..Len(s) : s[i] = c

\* p in s, for a non-empty pattern p
Contains(s, p) == \E i \in 1..(Len(s) - Len(p) + 1) : SubSeq(s, i, i + Len(p) - 1) = p

\* s.replace(c, '')
RemoveAll(s, c) == SelectSeq(s, LAMBDA x : x # c)

RECURSIVE LStrip(_)
LStrip(s) == IF s # <<>> /\ IsSpace(Head(s)) THEN LStrip(Tail(s)) ELSE s

RECURSIVE RStrip(_)
RStrip(s) == IF s # <<>> /\ IsSpace(s[Len(s)]) THEN RStrip(SubSeq(s, 1, Len(s) - 1)) ELSE s

\* s.strip()
Strip(s) == RStrip(LStrip(s))

\* s.split(c): the parts between the occurrences of c
RECURSIVE Split(_, _)
Split(s, c) ==
    IF ~Has(s, c) THEN <<s>>
    ELSE LET i == CHOOSE j \in 1..Len(s) : s[j] = c /\ \A k \in 1..(j - 1) : s[k] # c
         IN <<SubSeq(s, 1, i - 1)>> \o Split(SubSeq(s, i + 1, Len(s)), c)

\* str(n) for an integer n
RECURSIVE IntToText(_)
IntToText(n) ==
    IF n < 0 THEN <<"-">> \o IntToText(0 - n)
    ELSE IF n < 10 THEN <<DigitChars[n + 1]>>
    ELSE IntToText(n \div 10) \o <<DigitChars[(n % 10) + 1]>>

RECURSIVE DigitsValue(_)
DigitsValue(s) == IF s = <<>> THEN 0 ELSE DigitsValue(SubSeq(s, 1, Len(s) - 1)) * 10 + DigitVal(s[Len(s)])

\* whether int(s) succeeds: surrounding whitespace, an optional sign, then digits
IsIntLiteral(s) ==
    LET t == Strip(s)
        body == IF t # <<>> /\ Head(t) \in {"-", "+"} THEN Tail(t) ELSE t
    IN body # <<>> /\ \A i \in 1..Len(body) : IsDigit(body[i])

\* int(s) when it succeeds
IntValue(s) ==
    LET t == Strip(s)
    IN IF Head(t) = "-" THEN 0 - DigitsValue(Tail(t))
       ELSE IF Head(t) = "+" THEN DigitsValue(Tail(t))
       ELSE DigitsValue(t)

\* variant: the month is not zero-padded
Format02dNoPad(n) == IntToText(n)

\* f"{n:02d}"
Format02d(n) == IF 0 <= n /\ n < 10 THEN <<"0">> \o IntToText(n) ELSE IntToText(n)

(***************************************************************************)
(* Tables: a frame is its column labels and its rows; a cell is a missing  *)
(* value (NaN), a number or a text.                                        *)
(***************************************************************************)

NaN == [kind |-> "nan", s |-> <<>>, n |-> 0]

Num(n) == [kind |-> "num", s |-> <<>>, n |-> n]

Str(s) == [kind |-> "str", s |-> s, n |-> 0]

\* pd.isna(cell)
IsNa(cell) == cell.kind = "nan"

\* str(cell) for a cell that is not missing
CellToText(cell) == IF cell.kind = "num" THEN IntToText(cell.n) ELSE cell.s

EmptyDf == [columns |-> <<>>, rows |-> <<>>]

(***************************************************************************)
(* Cleaner                                                                 *)
(***************************************************************************)

header_patterns == {<<NIAN, ZENG, LYU>>, <<ZHAN, ZONG, CHU, KOU>>, <<ZHAN, BI>>, <<JIN, E_AMOUNT>>}

comparison_patterns == {<<JIAO, SHANG>>, <<ZENG, JIAN>>}

\* variant: the bare-month test is left out
is_sub_header_row_without_month_test(row) ==
    LET first_col_value == row[1] IN
    IF IsNa(first_col_value) THEN TRUE
    ELSE IF first_col_value.kind = "str"
         THEN \/ \E pattern \in header_patterns : Contains(first_col_value.s, pattern)
              \/ \E pattern \in comparison_patterns : Contains(first_col_value.s, pattern)
         ELSE FALSE

\* DataCleaner._is_sub_header_row
is_sub_header_row(row) ==
    LET first_col_value == row[1] IN
    IF IsNa(first_col_value) THEN TRUE
    ELSE IF first_col_value.kind = "str"
         THEN \/ \E pattern \in header_patterns : Contains(first_col_value.s, pattern)
              \/ \E pattern \in comparison_patterns : Contains(first_col_value.s, pattern)
              \/ Has(first_col_value.s, YUE) /\ ~Has(first_col_value.s, NIAN)
         ELSE FALSE

\* DataCleaner.remove_sub_header_rows
remove_sub_header_rows(df) ==
    [df EXCEPT !.rows = SelectSeq(df.rows, LAMBDA row : ~is_sub_header_row(row))]

\* whether remove_sub_header_rows raises instead of returning.  On a table without
\* rows df.apply(..., axis=1) never calls the row test on a row; what it returns, and
\* whether the ~ applied to it raises TypeError, depends on the pandas build.
remove_sub_header_rows_raises(df) == IF Len(df.rows) = 0 THEN BOOLEAN ELSE {FALSE}

\* the keys of `replacements`: '-', '...', the full-width space, ''
replacements == {<<"-">>, <<".", ".", ".">>, <<FWSP>>, <<>>}

\* one cell under DataFrame.replace(old_val, np.nan) for every key
ReplaceCell(cell) == IF cell.kind = "str" /\ cell.s \in replacements THEN NaN ELSE cell

\* DataCleaner.handle_missing_values
handle_missing_values(df) ==
    [df EXCEPT !.rows = [i \in 1..Len(df.rows) |->
        [j \in 1..Len(df.rows[i]) |-> ReplaceCell(df.rows[i][j])]]]

\* DataCleaner.column_mappings: a sample of config/column_mappings.json, keyed by table
\* identifier; the labels stand for the source-language headers
column_mappings ==
    [table08 |-> [nian_yue_bie |-> "year_month",
                  chukou_zongzhi |-> "total_export_value_usd_million"]]

\* DataCleaner.rename_columns: exact-match substitution; placeholder columns stay
rename_columns(df, table_id) ==
    IF table_id \notin DOMAIN column_mappings THEN df
    ELSE LET table_mappings == column_mappings[table_id]
             Renamed(col) == IF col \in DOMAIN table_mappings THEN table_mappings[col] ELSE col
         IN [df EXCEPT !.columns = [j \in 1..Len(df.columns) |-> Renamed(df.columns[j])]]

\* col.startswith('col_') and col.split('_')[1] over the column labels of the model:
\* the text between the first and the second underscore of each label that starts
\* with col_
placeholder_suffix == [col_1 |-> <<"1">>, col_9 |-> <<"9">>, col_x |-> <<"x">>]

\* whether the placeholder loop of rename_columns raises: int() of the suffix fails
\* (ValueError), or columns[col_idx - 1] lies past the last column (IndexError)
rename_columns_raises(df, table_id) ==
    /\ table_id \in DOMAIN column_mappings
    /\ LET columns == rename_columns(df, table_id).columns
       IN \E j \in 1..Len(columns) :
            /\ columns[j] \in DOMAIN placeholder_suffix
            /\ LET suffix == placeholder_suffix[columns[j]]
               IN \/ ~IsIntLiteral(suffix)
                  \/ IntValue(suffix) > 0 /\ IntValue(suffix) - 1 >= Len(columns)

\* one cell under pd.to_numeric(errors='coerce')
ToNumeric(cell) ==
    IF cell.kind = "str"
    THEN IF IsIntLiteral(cell.s) THEN Num(IntValue(cell.s)) ELSE NaN
    ELSE cell

\* how many columns carry the label col
Occurrences(columns, col) == Cardinality({j \in 1..Len(columns) : columns[j] = col})

\* DataCleaner.convert_numeric_columns: every column but the first.  For a label that
\* several columns carry, converted_df[col] is a table, pd.to_numeric raises TypeError,
\* the except clause logs a warning and the columns of that label stay as they are.
convert_numeric_columns(df) ==
    [df EXCEPT !.rows = [i \in 1..Len(df.rows) |->
        [j \in 1..Len(df.rows[i]) |->
            IF j = 1 \/ Occurrences(df.columns, df.columns[j]) > 1
            THEN df.rows[i][j]
            ELSE ToNumeric(df.rows[i][j])]]]

\* clean_year_month_value without the strip() of the text
clean_year_month_text_unstripped(val) ==
    LET parts == Split(RemoveAll(val, YUE), NIAN)
    IN IF Has(val, NIAN) /\ ~Has(val, YUE)
       THEN RemoveAll(val, NIAN)
       ELSE IF Has(val, NIAN) /\ Has(val, YUE) /\ Len(parts) = 2 /\ IsIntLiteral(parts[2])
            THEN parts[1] \o <<"-">> \o Format02d(IntValue(parts[2]))
            ELSE val

\* clean_year_month_value for a value that is not missing, on its text
clean_year_month_text(val) ==
    LET val_str == Strip(val)
        parts == Split(RemoveAll(val_str, YUE), NIAN)
    IN IF Has(val_str, NIAN) /\ ~Has(val_str, YUE)
       THEN Strip(RemoveAll(val_str, NIAN))
       ELSE IF Has(val_str, NIAN) /\ Has(val_str, YUE) /\ Len(parts) = 2 /\ IsIntLiteral(parts[2])
            THEN Strip(parts[1]) \o <<"-">> \o Format02d(IntValue(parts[2]))
            ELSE val_str

\* clean_year_month_value followed by astype(str): a missing value becomes the text 'nan'
clean_year_month_value(cell) ==
    IF IsNa(cell) THEN Str(<<"n", "a", "n">>)
    ELSE Str(clean_year_month_text(CellToText(cell)))

\* DataCleaner.clean_year_month_column with the default column (the first)
clean_year_month_column(df) ==
    [df EXCEPT !.rows = [i \in 1..Len(df.rows) |->
        [j \in 1..Len(df.rows[i]) |->
            IF j = 1 THEN clean_year_month_value(df.rows[i][j]) ELSE df.rows[i][j]]]]

\* DataCleaner.clean_dataframe; the final reset_index renumbers the rows, which a
\* sequence of rows does by itself
clean_dataframe(df, table_id) ==
    clean_year_month_column(
        convert_numeric_columns(
            rename_columns(
                handle_missing_values(
                    remove_sub_header_rows(df)), table_id)))

\* whether clean_dataframe raises: none of its steps catches what
\* remove_sub_header_rows or rename_columns raises
clean_dataframe_raises(df, table_id) ==
    {r \/ rename_columns_raises(df, table_id) : r \in remove_sub_header_rows_raises(df)}

\* applying one DataCleaner method to the raw table; raises holds the possible answers
\* to whether the call raises
Apply(op, result, raises) ==
    /\ c_op = "none"
    /\ c_op' = op
    /\ \E r \in raises :
         /\ c_raised' = r
         /\ out_df' = IF r THEN out_df ELSE result
    /\ UNCHANGED <<late_vars, pipe_vars, result_vars, valid_vars, raw_df, c_table_id, first_df, passes>>

RemoveSubHeaderRows ==
    Apply("remove_sub_header_rows", remove_sub_header_rows(raw_df),
          remove_sub_header_rows_raises(raw_df))

HandleMissingValues == Apply("handle_missing_values", handle_missing_values(raw_df), {FALSE})

RenameColumns ==
    Apply("rename_columns", rename_columns(raw_df, c_table_id),
          {rename_columns_raises(raw_df, c_table_id)})

ConvertNumericColumns ==
    Apply("convert_numeric_columns", convert_numeric_columns(raw_df), {FALSE})

CleanYearMonthColumn ==
    Apply("clean_year_month_column", clean_year_month_column(raw_df), {FALSE})

\* clean_dataframe on the raw table
CleanDataframe ==
    /\ c_op = "none"
    /\ c_op' = "clean_dataframe"
    /\ \E r \in clean_dataframe_raises(raw_df, c_table_id) :
         /\ c_raised' = r
         /\ out_df' = IF r THEN out_df ELSE clean_dataframe(raw_df, c_table_id)
         /\ passes' = IF r THEN 0 ELSE 1
    /\ first_df' = out_df'
    /\ UNCHANGED <<late_vars, pipe_vars, result_vars, valid_vars, raw_df, c_table_id>>

\* clean_dataframe on the table the first pass returned
CleanDataframeAgain ==
    /\ c_op = "clean_dataframe"
    /\ passes = 1
    /\ ~c_raised
    /\ \E r \in clean_dataframe_raises(out_df, c_table_id) :
         /\ c_raised' = r
         /\ out_df' = IF r THEN out_df ELSE clean_dataframe(out_df, c_table_id)
         /\ passes' = IF r THEN 1 ELSE 2
    /\ UNCHANGED <<late_vars, pipe_vars, result_vars, valid_vars, raw_df, c_table_id, c_op, first_df>>

NextClean ==
    \/ RemoveSubHeaderRows
    \/ HandleMissingValues
    \/ RenameColumns
    \/ ConvertNumericColumns
    \/ CleanYearMonthColumn
    \/ CleanDataframe
    \/ CleanDataframeAgain

(***************************************************************************)
(* Raw tables handed to the Cleaner                                        *)
(***************************************************************************)

\* characters of the exhaustively enumerated first-cell texts
Alphabet == {"1", NIAN, YUE, "-", " "}

RECURSIVE TextsUpTo(_, _)
TextsUpTo(S, n) ==
    IF n = 0 THEN {<<>>}
    ELSE LET shorter == TextsUpTo(S, n - 1)
         IN shorter \cup {Append(s, x) : s \in shorter, x \in S}

\* first-cell texts as they occur in the spreadsheets
SampleTexts ==
    {<<"1", "1", "4", NIAN, "8", YUE>>,                 \* 114 nian 8 yue
     <<"1", "1", "4", NIAN, "1", "2", YUE>>,            \* 114 nian 12 yue
     <<"1", "0", "4", NIAN>>,                           \* 104 nian
     <<"1", "1", "4", NIAN, "1", "-", "8", YUE>>,       \* 114 nian 1-8 yue
     <<"1", "1", "4", "-", "0", "8">>,                  \* 114-08
     <<"8", YUE>>,                                      \* 8 yue
     <<NIAN, ZENG, LYU>>,                               \* the growth-rate label
     <<ZHAN, ZONG, CHU, KOU, BI, "%">>,                 \* share of total exports
     <<JIN, E_AMOUNT>>,                                 \* amount
     <<JIAO, SHANG, YUE, ZENG, JIAN>>,                  \* compared with the previous month
     <<ZHAN, NIAN, BI>>,
     <<".", ".", ".">>,
     <<FWSP>>,
     <<" ", "1", "0", "4", NIAN, " ">>}

FirstCells == {Str(s) : s \in TextsUpTo(Alphabet, MaxTokenLen) \cup SampleTexts} \cup {NaN, Num(114)}

\* first cells of the rows of the larger tables
RowFirstCells ==
    {Str(<<"1", "1", "4", NIAN, "1", "-", "8", YUE>>), Str(<<NIAN, ZENG, LYU>>),
     Str(<<"8", YUE>>), NaN}

\* cells of the value column
ValueCells == {Num(7), Str(<<"-">>), Str(<<"1", "2">>)}

\* cells of the value columns of the three-column tables: a number, a placeholder,
\* digits as text, a text that is no number
WideValueCells == ValueCells \cup {Str(<<"x">>)}

FirstColumnLabels == {"nian_yue_bie", "qijian"}

ValueColumnLabels == {"chukou_zongzhi", "col_1"}

\* labels of the second column of the three-column tables: the placeholder labels
\* include one whose suffix is no number and one that points past the last column
SecondColumnLabels == ValueColumnLabels \cup {"col_x", "col_9"}

\* labels of the third column: one that is already the name the second column is
\* renamed to, one that no mapping knows
ThirdColumnLabels == {"total_export_value_usd_million", "jinkou_zongzhi"}

CleanerTableIds == {"table08", "table03"}

\* the period tokens the documentation gives as examples, in one table
ExampleTable ==
    [columns |-> <<"nian_yue_bie", "chukou_zongzhi">>,
     rows |-> << <<Str(<<"1", "0", "4", NIAN>>), Num(7)>>,
                 <<Str(<<"1", "1", "4", NIAN, "8", YUE>>), Num(7)>>,
                 <<Str(<<"1", "1", "4", "-", "0", "8">>), Num(7)>>,
                 <<Str(<<" ", "1", "1", "4", " ">>), Num(7)>> >>]

RawTables ==
    {ExampleTable}
    \cup
    {[columns |-> <<"nian_yue_bie", "chukou_zongzhi">>, rows |-> << <<f, Num(7)>> >>] :
        f \in FirstCells}
    \cup
    {[columns |-> <<c1, c2>>, rows |-> rows] :
        c1 \in FirstColumnLabels, c2 \in ValueColumnLabels,
        rows \in TextsUpTo({<<f, v>> : f \in RowFirstCells, v \in ValueCells}, MaxRows)}
    \cup
    {[columns |-> <<c1, c2, c3>>, rows |-> << <<f, v, w>> >>] :
        c1 \in FirstColumnLabels, c2 \in SecondColumnLabels, c3 \in ThirdColumnLabels,
        f \in {Str(<<"1", "1", "4", NIAN, "8", YUE>>)}, v \in WideValueCells,
        w \in WideValueCells}

(***************************************************************************)
(* Validator (data_validator.py: ValidationResult and DataValidator)       *)
(***************************************************************************)

\* most add_error / add_warning calls made on one ValidationResult
MaxCalls == 4

\* most rows of an enumerated table handed to the Validator
MaxValidRows == 2

\* a message of ValidationResult.errors or .warnings: the rule that wrote it, the
\* column it names and the count it carries ("" and 0 where the text has none)
Msg(rule, column, count) == [rule |-> rule, column |-> column, count |-> count]

\* ValidationResult(table_id=..., passed=True, row_count=..., column_count=...)
ValidationResult(table_id, row_count, column_count) ==
    [table_id |-> table_id, passed |-> TRUE, errors |-> <<>>, warnings |-> <<>>,
     row_count |-> row_count, column_count |-> column_count]

\* add_error that appends the message and leaves passed alone
add_error_keeping_passed(result, message) ==
    [result EXCEPT !.errors = Append(@, message)]

\* ValidationResult.add_error
add_error(result, message) ==
    [result EXCEPT !.errors = Append(@, message), !.passed = FALSE]

\* ValidationResult.add_warning
add_warning(result, message) ==
    [result EXCEPT !.warnings = Append(@, message)]

\* the characters of the column labels of the tables handed to the Validator
label_text ==
    [year_month |-> <<"y", "e", "a", "r", "_", "m", "o", "n", "t", "h">>,
     fiscal_Year |-> <<"f", "i", "s", "c", "a", "l", "_", "Y", "e", "a", "r">>,
     period |-> <<"p", "e", "r", "i", "o", "d">>,
     total_export_value_usd_million |-> <<"t", "o", "t", "a", "l", "_", "e", "x", "p", "o", "r", "t", "_", "v", "a", "l", "u", "e", "_", "u", "s", "d", "_", "m", "i", "l", "l", "i", "o", "n">>,
     total_export_growth_rate_pct |-> <<"t", "o", "t", "a", "l", "_", "e", "x", "p", "o", "r", "t", "_", "g", "r", "o", "w", "t", "h", "_", "r", "a", "t", "e", "_", "p", "c", "t">>,
     us_export_share_pct |-> <<"u", "s", "_", "e", "x", "p", "o", "r", "t", "_", "s", "h", "a", "r", "e", "_", "p", "c", "t">>,
     Exchange_Rate |-> <<"E", "x", "c", "h", "a", "n", "g", "e", "_", "R", "a", "t", "e">>]

\* str.lower() on the characters of those labels
LowerChar(c) == CASE c = "E" -> "e" [] c = "R" -> "r" [] c = "Y" -> "y" [] OTHER -> c

\* pattern in col.lower()
InLower(pattern, col) ==
    Contains([i \in 1..Len(label_text[col]) |-> LowerChar(label_text[col][i])], pattern)

\* the storage type pandas infers for a column holding these cells
InferDtype(cells) ==
    IF cells = {} \/ \E c \in cells : c.kind = "str" THEN "object"
    ELSE IF \E c \in cells : c.kind = "nan" THEN "float64"
    ELSE "int64"

\* a table as the Validator sees it: labels, storage type per column, rows
Typed(columns, rows) ==
    [columns |-> columns,
     dtypes |-> [j \in 1..Len(columns) |-> InferDtype({rows[i][j] : i \in 1..Len(rows)})],
     rows |-> rows]

\* df.empty: no rows or no columns
df_empty(df) == Len(df.rows) = 0 \/ Len(df.columns) = 0

\* position of the column labelled column
ColumnIndex(df, column) == CHOOSE j \in 1..Len(df.columns) : df.columns[j] = column

\* str(val) for a value of the column at position j: a number of a float64 column is
\* written with its fraction
ValText(df, j, cell) ==
    IF cell.kind = "num"
    THEN IF df.dtypes[j] = "float64" THEN IntToText(cell.n) \o <<".", "0">> ELSE IntToText(cell.n)
    ELSE cell.s

\* str.isdigit()
isdigit(s) == s # <<>> /\ \A i \in 1..Len(s) : IsDigit(s[i])

\* check_year_month_format that also rejects the missing values
check_year_month_format_counting_missing(df, column) ==
    LET j == ColumnIndex(df, column)
        invalid_formats == {i \in 1..Len(df.rows) :
            \/ IsNa(df.rows[i][j])
            \/ ~(isdigit(ValText(df, j, df.rows[i][j])) \/ Has(ValText(df, j, df.rows[i][j]), "-"))}
    IN IF invalid_formats # {} THEN <<Msg("invalid_format", column, Cardinality(invalid_formats))>>
       ELSE <<>>

\* DataValidator.check_year_month_format: the list of error messages
check_year_month_format(df, column) ==
    IF \A j \in 1..Len(df.columns) : df.columns[j] # column
    THEN <<Msg("column_not_found", column, 0)>>
    ELSE LET j == ColumnIndex(df, column)
             invalid_formats == {i \in 1..Len(df.rows) :
                 /\ ~IsNa(df.rows[i][j])
                 /\ ~(isdigit(ValText(df, j, df.rows[i][j])) \/ Has(ValText(df, j, df.rows[i][j]), "-"))}
         IN IF invalid_formats # {}
            THEN <<Msg("invalid_format", column, Cardinality(invalid_formats))>>
            ELSE <<>>

\* type_matches of check_data_types, over the storage types of the model
type_matches ==
    [float64 |-> {"float64", "float32", "int64", "int32"},
     int64 |-> {"int64", "int32"},
     string |-> {"object", "string"},
     object |-> {"object", "string"}]

\* DataValidator.check_data_types; expected_types is the sequence of the items of the
\* dictionary, each a pair of column label and expected type
RECURSIVE check_data_types(_, _)
check_data_types(df, expected_types) ==
    IF expected_types = <<>> THEN <<>>
    ELSE LET col == expected_types[1][1]
             expected_type == expected_types[1][2]
             rest == check_data_types(df, Tail(expected_types))
         IN IF \A j \in 1..Len(df.columns) : df.columns[j] # col
            THEN <<Msg("column_not_found", col, 0)>> \o rest
            ELSE LET actual_type == df.dtypes[ColumnIndex(df, col)]
                 IN IF expected_type \in DOMAIN type_matches
                    THEN IF actual_type \notin type_matches[expected_type]
                         THEN <<Msg("type_mismatch", col, 0)>> \o rest
                         ELSE rest
                    ELSE IF actual_type # expected_type
                         THEN <<Msg("type_mismatch", col, 0)>> \o rest
                         ELSE rest

\* SCHEMAS of schema_definitions.py, with the expected type of the columns that the
\* tables of the model carry
SCHEMAS ==
    [table08 |-> << <<"year_month", "string">>,
                   <<"total_export_value_usd_million", "float64">>,
                   <<"total_export_growth_rate_pct", "float64">>,
                   <<"us_export_share_pct", "float64">> >>,
     table02 |-> << <<"year_month", "string">> >>]

\* year_month_cols of validate_dataframe: positions of the columns whose lowered label
\* contains 'year' or whose label is 'year_month'
year_month_cols(df) ==
    {j \in 1..Len(df.columns) :
        InLower(<<"y", "e", "a", "r">>, df.columns[j]) \/ df.columns[j] = "year_month"}

\* variant: a table without a period column is an error
check_period_requiring_column(df, result) ==
    IF year_month_cols(df) = {} THEN add_error(result, Msg("no_year_month_column", "", 0))
    ELSE LET first == CHOOSE j \in year_month_cols(df) : \A k \in year_month_cols(df) : j <= k
             errors == check_year_month_format(df, df.columns[first])
         IN IF errors = <<>> THEN result ELSE add_error(result, errors[1])

\* the period-format step of validate_dataframe: a warning when no column qualifies,
\* else the errors of check_year_month_format on the first that does
check_period(df, result) ==
    IF year_month_cols(df) = {} THEN add_warning(result, Msg("no_year_month_column", "", 0))
    ELSE LET first == CHOOSE j \in year_month_cols(df) : \A k \in year_month_cols(df) : j <= k
             errors == check_year_month_format(df, df.columns[first])
         IN IF errors = <<>> THEN result ELSE add_error(result, errors[1])

\* df[col].dtype in ['float64', 'int64']
is_numeric_dtype(df, j) == df.dtypes[j] \in {"float64", "int64"}

\* (df[col] < 0).sum()
negative_count(df, j) ==
    Cardinality({i \in 1..Len(df.rows) : df.rows[i][j].kind = "num" /\ df.rows[i][j].n < 0})

\* (df[col] > 1000).sum()
extreme_high(df, j) ==
    Cardinality({i \in 1..Len(df.rows) : df.rows[i][j].kind = "num" /\ df.rows[i][j].n > 1000})

\* a count of the low values that takes -100 itself for extreme
extreme_low_inclusive(df, j) ==
    Cardinality({i \in 1..Len(df.rows) : df.rows[i][j].kind = "num" /\ df.rows[i][j].n <= -100})

\* (df[col] < -100).sum()
extreme_low(df, j) ==
    Cardinality({i \in 1..Len(df.rows) : df.rows[i][j].kind = "num" /\ df.rows[i][j].n < -100})

\* the negative-value step that reports an error instead of a warning
check_negative_as_error(df, j, result) ==
    IF InLower(<<"v", "a", "l", "u", "e">>, df.columns[j]) /\ is_numeric_dtype(df, j)
       /\ negative_count(df, j) > 0
    THEN add_error(result, Msg("negative", df.columns[j], negative_count(df, j)))
    ELSE result

\* the negative-value step of validate_dataframe for the column at position j
check_negative(df, j, result) ==
    IF InLower(<<"v", "a", "l", "u", "e">>, df.columns[j]) /\ is_numeric_dtype(df, j)
       /\ negative_count(df, j) > 0
    THEN add_warning(result, Msg("negative", df.columns[j], negative_count(df, j)))
    ELSE result

\* the growth-rate step of validate_dataframe for the column at position j
check_growth(df, j, result) ==
    IF (InLower(<<"g", "r", "o", "w", "t", "h">>, df.columns[j])
            \/ InLower(<<"r", "a", "t", "e">>, df.columns[j]))
       /\ is_numeric_dtype(df, j)
    THEN LET high == IF extreme_high(df, j) > 0
                     THEN add_warning(result, Msg("extreme_high", df.columns[j], extreme_high(df, j)))
                     ELSE result
         IN IF extreme_low(df, j) > 0
            THEN add_warning(high, Msg("extreme_low", df.columns[j], extreme_low(df, j)))
            ELSE high
    ELSE result

\* the loop over value_columns, from the column at position j on
RECURSIVE check_value_columns(_, _, _)
check_value_columns(df, j, result) ==
    IF j > Len(df.columns) THEN result
    ELSE check_value_columns(df, j + 1, check_negative(df, j, result))

\* the loop over growth_columns, from the column at position j on
RECURSIVE check_growth_columns(_, _, _)
check_growth_columns(df, j, result) ==
    IF j > Len(df.columns) THEN result
    ELSE check_growth_columns(df, j + 1, check_growth(df, j, result))

\* the checks of validate_dataframe that follow the emptiness check
generic_checks(df, result) ==
    check_growth_columns(df, 1, check_value_columns(df, 1, check_period(df, result)))

\* validate_dataframe that goes on after reporting an empty table
validate_dataframe_without_return(df, table_id, rules) ==
    LET result == ValidationResult(table_id, Len(df.rows), Len(df.columns))
    IN IF df_empty(df) THEN generic_checks(df, add_error(result, Msg("empty", "", 0)))
       ELSE generic_checks(df, result)

\* DataValidator.validate_dataframe; it reads neither rules nor the schema
validate_dataframe(df, table_id, rules) ==
    LET result == ValidationResult(table_id, Len(df.rows), Len(df.columns))
    IN IF df_empty(df) THEN add_error(result, Msg("empty", "", 0))
       ELSE generic_checks(df, result)

\* messages handed to add_error and add_warning
SampleMessages == {Msg("empty", "", 0), Msg("negative", "total_export_value_usd_million", 1)}

\* result.add_error(message)
AddError ==
    /\ Len(vr_calls) < MaxCalls
    /\ \E message \in SampleMessages : vr' = add_error(vr, message)
    /\ vr_calls' = Append(vr_calls, "add_error")
    /\ UNCHANGED <<late_vars, pipe_vars, clean_vars, valid_vars>>

\* result.add_warning(message)
AddWarning ==
    /\ Len(vr_calls) < MaxCalls
    /\ \E message \in SampleMessages : vr' = add_warning(vr, message)
    /\ vr_calls' = Append(vr_calls, "add_warning")
    /\ UNCHANGED <<late_vars, pipe_vars, clean_vars, valid_vars>>

NextResult ==
    \/ AddError
    \/ AddWarning

\* applying one DataValidator method to the table
ApplyValidator(op, returned) ==
    /\ v_op = "none"
    /\ v_op' = op
    /\ v_result' = returned
    /\ UNCHANGED <<late_vars, pipe_vars, clean_vars, result_vars, v_df, v_table_id, v_rules>>

ValidateDataframe ==
    ApplyValidator("validate_dataframe", validate_dataframe(v_df, v_table_id, v_rules))

\* check_year_month_format with its default column
CheckYearMonthFormat ==
    ApplyValidator("check_year_month_format", check_year_month_format(v_df, "year_month"))

\* check_data_types with the expected types of a schema
CheckDataTypes ==
    \E id \in DOMAIN SCHEMAS : ApplyValidator("check_data_types", check_data_types(v_df, SCHEMAS[id]))

NextValidate ==
    \/ ValidateDataframe
    \/ CheckYearMonthFormat
    \/ CheckDataTypes

\* cells of a period column
PeriodCells ==
    {Str(<<"1", "1", "4", "-", "0", "8">>), Str(<<"1", "1", "4">>), Str(<<"a", "b", "c">>),
     Str(<<>>), NaN, Num(114)}

\* the two period cells of the tables that vary the other column
FewPeriodCells == {Str(<<"1", "1", "4", "-", "0", "8">>), Str(<<"a", "b", "c">>)}

\* cells of a value, growth or share column: the numbers around 0, -100 and 1000, a
\* missing value and a text
NumberCells == {Num(-101), Num(-100), Num(-1), Num(0), Num(1000), Num(1001), NaN, Str(<<"x">>)}

PeriodLabels == {"year_month", "period"}

OtherLabels ==
    {"total_export_value_usd_million", "total_export_growth_rate_pct",
     "us_export_share_pct", "Exchange_Rate"}

ValidatorTableIds == {"table08", "table02", "table03"}

\* the optional rules argument: absent, or a dictionary asking for no negative value
ValidatorRules == {"None", "no_negative_values"}

\* a one-row table whose only anomaly is a growth rate of 1500, a table with a
\* negative value and both kinds of extreme rates, a table with two columns whose
\* label contains 'year', and a table without columns
ValidatorExamples ==
    {Typed(<<"year_month", "total_export_growth_rate_pct">>,
           << <<Str(<<"1", "1", "4", "-", "0", "8">>), Num(1500)>> >>),
     Typed(<<"year_month", "total_export_value_usd_million", "total_export_growth_rate_pct">>,
           << <<Str(<<"1", "1", "4">>), Num(-1), Num(1001)>>,
              <<Str(<<"1", "1", "4", "-", "0", "8">>), Num(7), Num(-101)>> >>),
     Typed(<<"fiscal_Year", "year_month">>,
           << <<Str(<<"1", "1", "4">>), Str(<<"a", "b", "c">>)>> >>),
     Typed(<<"year_month", "fiscal_Year">>,
           << <<Str(<<"1", "1", "4">>), Str(<<"a", "b", "c">>)>> >>),
     Typed(<<>>, <<>>)}

ValidatorTables ==
    ValidatorExamples
    \cup
    {Typed(<<c1>>, rows) :
        c1 \in PeriodLabels \cup {"fiscal_Year"},
        rows \in TextsUpTo({<<f>> : f \in PeriodCells}, MaxValidRows)}
    \cup
    {Typed(<<c1, c2>>, rows) :
        c1 \in PeriodLabels, c2 \in OtherLabels,
        rows \in TextsUpTo({<<f, v>> : f \in FewPeriodCells, v \in NumberCells}, MaxValidRows)}

(***************************************************************************)
(* Transformer: the derived columns are float64; a value is missing, plus  *)
(* or minus infinity, or a number kept as a fraction in lowest terms.      *)
(***************************************************************************)

\* most rows of an enumerated table of yearly values
MaxSeriesRows == 3

\* most rows of an enumerated table of monthly values
MaxMonthRows == 3

RNaN == [kind |-> "nan", num |-> 0, den |-> 0]

RInf(sign) == [kind |-> "inf", num |-> sign, den |-> 0]

Abs(n) == IF n < 0 THEN 0 - n ELSE n

Sign(n) == IF n < 0 THEN 0 - 1 ELSE IF n > 0 THEN 1 ELSE 0

RECURSIVE GCD(_, _)
GCD(a, b) == IF b = 0 THEN a ELSE GCD(b, a % b)

\* the number a / b for b # 0
Ratio(a, b) ==
    LET g == GCD(Abs(a), Abs(b))
    IN [kind |-> "num", num |-> (Sign(b) * a) \div g, den |-> Abs(b) \div g]

\* a / b of two float64 numbers: a division by zero gives an infinity, 0 / 0 is missing
TrueDiv(a, b) ==
    IF b # 0 THEN Ratio(a, b)
    ELSE IF a = 0 THEN RNaN ELSE RInf(Sign(a))

\* (x / y) * 100 of two cells of numeric columns; a missing operand gives a missing value
percent_of(x, y) ==
    IF IsNa(x) \/ IsNa(y) THEN RNaN
    ELSE LET q == TrueDiv(x.n, y.n)
         IN IF q.kind = "num" THEN Ratio(q.num * 100, q.den) ELSE q

\* column in df.columns
HasColumn(df, column) == \E j \in 1..Len(df.columns) : df.columns[j] = column

\* df[column] as the sequence of its cells
Column(df, column) ==
    LET j == ColumnIndex(df, column) IN [i \in 1..Len(df.rows) |-> df.rows[i][j]]

\* pd.Series([np.nan] * len(df))
AllMissing(df) == [i \in 1..Len(df.rows) |-> RNaN]

\* series.shift(1)
shift(series) == [i \in 1..Len(series) |-> IF i = 1 THEN NaN ELSE series[i - 1]]

\* cur - prev of two cells of a numeric column
minus(cur, prev) == IF IsNa(cur) \/ IsNa(prev) THEN NaN ELSE Num(cur.n - prev.n)

\* variant: the previous values are not shifted
calculate_growth_rate_unshifted(df, value_column, group_by_column) ==
    IF ~HasColumn(df, value_column) THEN AllMissing(df)
    ELSE LET values == Column(df, value_column)
         IN [i \in 1..Len(values) |-> percent_of(minus(values[i], values[i]), values[i])]

\* DataTransformer.calculate_growth_rate; group_by_column is accepted and never read
calculate_growth_rate(df, value_column, group_by_column) ==
    IF ~HasColumn(df, value_column) THEN AllMissing(df)
    ELSE LET values == Column(df, value_column)
             prev_values == shift(values)
         IN [i \in 1..Len(values) |->
                percent_of(minus(values[i], prev_values[i]), prev_values[i])]

\* DataTransformer.calculate_market_share
calculate_market_share(df, value_column, total_column) ==
    IF ~HasColumn(df, value_column) \/ ~HasColumn(df, total_column) THEN AllMissing(df)
    ELSE LET values == Column(df, value_column)
             totals == Column(df, total_column)
         IN [i \in 1..Len(values) |-> percent_of(values[i], totals[i])]

\* the sum of the numbers of values[1..i] whose key is the key of row i; missing numbers
\* are skipped
RECURSIVE RunningSum(_, _, _, _)
RunningSum(values, keys, i, k) ==
    IF k = 0 THEN 0
    ELSE RunningSum(values, keys, i, k - 1)
         + (IF keys[k] = keys[i] /\ ~IsNa(values[k]) THEN values[k].n ELSE 0)

\* series.cumsum() within the groups of keys: a missing number stays missing, and a row
\* whose key is missing belongs to no group
grouped_cumsum(values, keys) ==
    [i \in 1..Len(values) |->
        IF IsNa(values[i]) \/ IsNa(keys[i]) THEN RNaN
        ELSE Ratio(RunningSum(values, keys, i, i), 1)]

\* whether calculate_cumulative_sum raises: groupby of a label that is no column (KeyError)
calculate_cumulative_sum_raises(df, value_column, reset_column) ==
    /\ HasColumn(df, value_column)
    /\ reset_column # "None"
    /\ ~HasColumn(df, reset_column)

\* DataTransformer.calculate_cumulative_sum, when it returns
calculate_cumulative_sum(df, value_column, reset_column) ==
    IF ~HasColumn(df, value_column) THEN AllMissing(df)
    ELSE IF reset_column = "None"
         THEN grouped_cumsum(Column(df, value_column), [i \in 1..Len(df.rows) |-> Num(0)])
         ELSE grouped_cumsum(Column(df, value_column), Column(df, reset_column))

\* the characters of period tokens in code point order, as sorting compares them
CodePointOrder ==
    <<"-", "0", "1", "2", "3", "4", "5", "6", "7", "8", "9", "Q", NIAN, YUE>>

CharRank(c) == CHOOSE r \in 1..Len(CodePointOrder) : CodePointOrder[r] = c

\* a < b for two texts
RECURSIVE TextLess(_, _)
TextLess(a, b) ==
    IF b = <<>> THEN FALSE
    ELSE IF a = <<>> THEN TRUE
    ELSE IF Head(a) = Head(b) THEN TextLess(Tail(a), Tail(b))
    ELSE CharRank(Head(a)) < CharRank(Head(b))

\* the texts of a finite set in ascending order
RECURSIVE SortedTexts(_)
SortedTexts(S) ==
    IF S = {} THEN <<>>
    ELSE LET least == CHOOSE a \in S : \A b \in S \ {a} : TextLess(a, b)
         IN <<least>> \o SortedTexts(S \ {least})

\* whether to_quarter raises ValueError: the text around the hyphen is not two parts,
\* or the part after it is no integer
to_quarter_raises(year_month) ==
    /\ ~IsNa(year_month)
    /\ Has(CellToText(year_month), "-")
    /\ LET parts == Split(CellToText(year_month), "-")
       IN Len(parts) # 2 \/ ~IsIntLiteral(parts[2])

\* variant: the quarter is month_int // 3 + 1
to_quarter_off_by_one(year_month) ==
    IF IsNa(year_month) THEN NaN
    ELSE IF Has(CellToText(year_month), "-")
         THEN LET parts == Split(CellToText(year_month), "-")
                  month_int == IntValue(parts[2])
                  quarter == (month_int \div 3) + 1
              IN Str(parts[1] \o <<"-", "Q">> \o IntToText(quarter))
         ELSE year_month

\* to_quarter of create_quarterly_aggregation, when it returns
to_quarter(year_month) ==
    IF IsNa(year_month) THEN NaN
    ELSE IF Has(CellToText(year_month), "-")
         THEN LET parts == Split(CellToText(year_month), "-")
                  month_int == IntValue(parts[2])
                  quarter == ((month_int - 1) \div 3) + 1
              IN Str(parts[1] \o <<"-", "Q">> \o IntToText(quarter))
         ELSE year_month

\* the labels of value_columns that are columns of df, each once, in the order given
RECURSIVE agg_dict(_, _)
agg_dict(df, value_columns) ==
    IF value_columns = <<>> THEN <<>>
    ELSE LET rest == agg_dict(df, SubSeq(value_columns, 1, Len(value_columns) - 1))
             col == value_columns[Len(value_columns)]
         IN IF HasColumn(df, col) /\ \A k \in 1..Len(rest) : rest[k] # col
            THEN Append(rest, col) ELSE rest

\* the sum of the numbers of column j over the rows 1..k whose quarter is key
RECURSIVE GroupSum(_, _, _, _, _)
GroupSum(df, quarters, key, j, k) ==
    IF k = 0 THEN 0
    ELSE GroupSum(df, quarters, key, j, k - 1)
         + (IF quarters[k] = key /\ ~IsNa(df.rows[k][j]) THEN df.rows[k][j].n ELSE 0)

\* whether create_quarterly_aggregation raises: KeyError for a date column that is no
\* column, ValueError from to_quarter
create_quarterly_aggregation_raises(df, date_column, value_columns) ==
    \/ ~HasColumn(df, date_column)
    \/ \E i \in 1..Len(df.rows) : to_quarter_raises(Column(df, date_column)[i])

\* DataTransformer.create_quarterly_aggregation, when it returns; the input table has no
\* column named quarter
create_quarterly_aggregation(df, date_column, value_columns) ==
    LET quarters == [i \in 1..Len(df.rows) |-> to_quarter(Column(df, date_column)[i])]
        quarterly_df == [columns |-> Append(df.columns, "quarter"),
                         rows |-> [i \in 1..Len(df.rows) |-> Append(df.rows[i], quarters[i])]]
        agg == agg_dict(quarterly_df, value_columns)
        keys == SortedTexts({quarters[i].s : i \in {k \in 1..Len(quarters) : ~IsNa(quarters[k])}})
    IN IF agg # <<>>
       THEN [columns |-> <<"quarter">> \o agg,
             rows |-> [g \in 1..Len(keys) |->
                         <<Str(keys[g])>> \o
                         [c \in 1..Len(agg) |->
                             Num(GroupSum(df, quarters, Str(keys[g]),
                                          ColumnIndex(df, agg[c]), Len(df.rows)))]]]
       ELSE quarterly_df

\* one DataTransformer method applied to the table t_df
ApplyTransformer(op, args, result, raises) ==
    /\ t_op = "none"
    /\ t_op' = op
    /\ t_args' = args
    /\ t_raised' = raises
    /\ t_out' = IF raises THEN <<>> ELSE result
    /\ UNCHANGED <<early_vars, export_vars, sheet_vars, cache_vars, t_df>>

\* the labels a caller passes: columns of the tables below and labels that are no column
ValueColumnArgs == {"exports", "imports"}

GroupColumnArgs == {"None", "region", "area"}

TotalColumnArgs == {"total", "grand_total"}

DateColumnArgs == {"year_month", "period"}

ValueColumnLists == {<<"exports">>, <<"imports">>, <<"exports", "imports">>}

CalculateGrowthRate ==
    \E value_column \in ValueColumnArgs, group_by_column \in GroupColumnArgs :
        ApplyTransformer("calculate_growth_rate",
                         [a |-> value_column, b |-> group_by_column, cols |-> <<>>],
                         calculate_growth_rate(t_df, value_column, group_by_column), FALSE)

CalculateMarketShare ==
    \E value_column \in ValueColumnArgs, total_column \in TotalColumnArgs :
        ApplyTransformer("calculate_market_share",
                         [a |-> value_column, b |-> total_column, cols |-> <<>>],
                         calculate_market_share(t_df, value_column, total_column), FALSE)

CalculateCumulativeSum ==
    \E value_column \in ValueColumnArgs, reset_column \in GroupColumnArgs :
        ApplyTransformer("calculate_cumulative_sum",
                         [a |-> value_column, b |-> reset_column, cols |-> <<>>],
                         calculate_cumulative_sum(t_df, value_column, reset_column),
                         calculate_cumulative_sum_raises(t_df, value_column, reset_column))

CreateQuarterlyAggregation ==
    \E date_column \in DateColumnArgs, value_columns \in ValueColumnLists :
        ApplyTransformer("create_quarterly_aggregation",
                         [a |-> date_column, b |-> "None", cols |-> value_columns],
                         create_quarterly_aggregation(t_df, date_column, value_columns),
                         create_quarterly_aggregation_raises(t_df, date_column, value_columns))

NextTransform ==
    \/ CalculateGrowthRate
    \/ CalculateMarketShare
    \/ CalculateCumulativeSum
    \/ CreateQuarterlyAggregation

(***************************************************************************)
(* Tables handed to the Transformer                                        *)
(***************************************************************************)

RegionCells == {Str(<<"a">>), Str(<<"b">>)}

YearlyValueCells == {NaN, Num(0), Num(100), Num(110)}

ShareCells == {NaN, Num(0), Num(50)}

MonthCells ==
    {NaN,
     Str(<<"2", "0", "2", "5">>),
     Str(<<"2", "0", "2", "5", "-", "0", "1">>),
     Str(<<"2", "0", "2", "5", "-", "0", "3">>),
     Str(<<"2", "0", "2", "5", "-", "0", "4">>)}

MonthlyValueCells == {Num(5), Num(7)}

TransformerExamples ==
    {[columns |-> <<"exports">>,
      rows |-> << <<Num(100)>>, <<Num(110)>>, <<Num(121)>> >>],
     [columns |-> <<"region", "exports">>,
      rows |-> << <<Str(<<"a">>), Num(100)>>, <<Str(<<"a">>), Num(110)>>,
                  <<Str(<<"b">>), Num(200)>>, <<Str(<<"b">>), Num(220)>> >>],
     [columns |-> <<"region", "exports">>,
      rows |-> << <<Str(<<"a">>), Num(1)>>, <<NaN, Num(2)>>, <<Str(<<"a">>), Num(4)>> >>],
     [columns |-> <<"year_month", "exports">>,
      rows |-> << <<Str(<<"1", "1", "4", NIAN, "1", "-", "8", YUE>>), Num(5)>> >>],
     [columns |-> <<"year_month", "exports">>,
      rows |-> << <<Str(<<"2", "0", "2", "5", "-", "0", "1", "-", "0", "2">>), Num(5)>> >>],
     [columns |-> <<"year_month", "exports", "imports">>,
      rows |-> << <<Str(<<"2", "0", "2", "4", "-", "1", "2">>), Num(1), NaN>>,
                  <<Str(<<"2", "0", "2", "5", "-", "1", "0">>), NaN, Num(2)>>,
                  <<Str(<<"2", "0", "2", "5", "-", "0", "7">>), Num(3), Num(4)>>,
                  <<Str(<<"2", "0", "2", "5", "-", "1", "2">>), Num(5), Num(6)>>,
                  <<Str(<<"2", "0", "2", "5", "-", "0", "9">>), Num(7), Num(8)>> >>],
     EmptyDf}

TransformerTables ==
    TransformerExamples
    \cup
    {[columns |-> <<"region", "exports">>, rows |-> rows] :
        rows \in TextsUpTo({<<r, v>> : r \in RegionCells, v \in YearlyValueCells},
                           MaxSeriesRows)}
    \cup
    {[columns |-> <<"exports", "total">>, rows |-> rows] :
        rows \in TextsUpTo({<<v, t>> : v \in ShareCells, t \in ShareCells}, MaxSeriesRows)}
    \cup
    {[columns |-> <<"year_month", "exports">>, rows |-> rows] :
        rows \in TextsUpTo({<<p, v>> : p \in MonthCells, v \in MonthlyValueCells},
                           MaxMonthRows)}

(***************************************************************************)
(* Exporter: FormatConverter.export_all_formats as DataPipeline calls it,  *)
(* one table after the other, one format after the other.                  *)
(***************************************************************************)

\* most tables of one run of the exporter
MaxExportTables == 2

\* the formats export_all_formats knows, in the order of its tests
FormatOrder == <<"parquet", "csv", "json">>

FormatNames == {FormatOrder[k] : k \in 1..Len(FormatOrder)}

\* the value of the formats argument: None, or a list of names
NoFormats == [none |-> TRUE, list |-> <<>>]

FormatList(list) == [none |-> FALSE, list |-> list]

\* formats after "if formats is None: formats = ['parquet', 'csv', 'json']"
resolved(formats) == IF formats.none THEN FormatOrder ELSE formats.list

\* variant: a requested name is compared after str.strip()
requested_after_strip(formats, name) ==
    \E k \in 1..Len(resolved(formats)) :
        \/ resolved(formats)[k] = name
        \/ resolved(formats)[k] = " csv" /\ name = "csv"

\* name in formats
requested(formats, name) ==
    \E k \in 1..Len(resolved(formats)) : resolved(formats)[k] = name

\* variant: export_to_<format> logs the failure and returns
export_raises_swallowed(fails, format) == FALSE

\* whether export_to_<format> raises: the failure of the write is logged and raised again
export_raises(fails, format) == format \in fails

\* variant: the files of the table are removed when a write fails
files_after_failure_rolled_back(files, table_id, format) ==
    {{f \in files : f[1] # table_id}}

\* the files on disk after the write of format failed: nothing is removed, and the file
\* being written may or may not exist
files_after_failure(files, table_id, format) ==
    {files, files \cup {<<table_id, format>>}}

\* the table process_multiple_tables is at
x_table == x_table_ids[x_idx]

\* what process_table leaves for a table: the value it returns, the entry of self.results
\* ("success", "failed", or "none" when none is stored), whether export_all_formats
\* returned and the keys of the map it returned
Outcome(table_id, returned, stored, exported, keys) ==
    [table_id |-> table_id, returned |-> returned, stored |-> stored,
     exported |-> exported, keys |-> keys]

\* process_table has returned: process_multiple_tables goes on with the next table
NextTable(outcome) ==
    /\ x_results' = Append(x_results, outcome)
    /\ x_idx' = x_idx + 1
    /\ x_pc' = "start"
    /\ x_paths' = <<>>

\* process_table, steps 1 to 4, for a table whose validation fails: it returns False
ValidationFails ==
    /\ x_pc = "start"
    /\ x_idx <= Len(x_table_ids)
    /\ ~x_fails[x_table].passed
    /\ NextTable(Outcome(x_table, FALSE, "none", FALSE, <<>>))
    /\ UNCHANGED <<early_vars, trans_vars, sheet_vars, cache_vars, x_fails, x_table_ids,
                   x_formats, x_validate_only, x_files, x_writes>>

\* process_table in validate-only mode: step 5 is skipped
SkipExport ==
    /\ x_pc = "start"
    /\ x_idx <= Len(x_table_ids)
    /\ x_fails[x_table].passed
    /\ x_validate_only
    /\ NextTable(Outcome(x_table, TRUE, "success", FALSE, <<>>))
    /\ UNCHANGED <<early_vars, trans_vars, sheet_vars, cache_vars, x_fails, x_table_ids,
                   x_formats, x_validate_only, x_files, x_writes>>

\* process_table, step 5: export_all_formats is entered with an empty output_paths
ExportAllFormats ==
    /\ x_pc = "start"
    /\ x_idx <= Len(x_table_ids)
    /\ x_fails[x_table].passed
    /\ ~x_validate_only
    /\ x_pc' = FormatOrder[1]
    /\ x_paths' = <<>>
    /\ UNCHANGED <<early_vars, trans_vars, sheet_vars, cache_vars, x_fails, x_table_ids,
                   x_formats, x_validate_only, x_idx, x_files, x_writes, x_results>>

\* where export_all_formats goes after the test of format
AfterFormat(format) ==
    IF format = FormatOrder[Len(FormatOrder)] THEN "return"
    ELSE FormatOrder[(CHOOSE k \in 1..Len(FormatOrder) : FormatOrder[k] = format) + 1]

\* "if '<format>' in formats: output_paths['<format>'] = self.export_to_<format>(...)":
\* the test fails, or the write succeeds, or it raises up to the except clause of
\* process_table, which stores the failure and returns False
ExportTo(format) ==
    /\ x_pc = format
    /\ IF ~requested(x_formats, format)
       THEN /\ x_pc' = AfterFormat(format)
            /\ UNCHANGED <<x_idx, x_files, x_writes, x_paths, x_results>>
       ELSE IF export_raises(x_fails[x_table].fails, format)
       THEN /\ x_files' \in files_after_failure(x_files, x_table, format)
            /\ NextTable(Outcome(x_table, FALSE, "failed", FALSE, <<>>))
            /\ UNCHANGED x_writes
       ELSE /\ x_files' = x_files \cup {<<x_table, format>>}
            /\ x_writes' = Append(x_writes, <<x_table, format>>)
            /\ x_paths' = Append(x_paths, format)
            /\ x_pc' = AfterFormat(format)
            /\ UNCHANGED <<x_idx, x_results>>
    /\ UNCHANGED <<early_vars, trans_vars, sheet_vars, cache_vars, x_fails, x_table_ids,
                   x_formats, x_validate_only>>

ExportToParquet == ExportTo("parquet")

ExportToCsv == ExportTo("csv")

ExportToJson == ExportTo("json")

\* export_all_formats returns output_paths; process_table stores the success
ReturnPaths ==
    /\ x_pc = "return"
    /\ NextTable(Outcome(x_table, TRUE, "success", TRUE, x_paths))
    /\ UNCHANGED <<early_vars, trans_vars, sheet_vars, cache_vars, x_fails, x_table_ids,
                   x_formats, x_validate_only, x_files, x_writes>>

NextExport ==
    \/ ValidationFails
    \/ SkipExport
    \/ ExportAllFormats
    \/ ExportToParquet
    \/ ExportToCsv
    \/ ExportToJson
    \/ ReturnPaths

\* the first table ids of process_all_tables
FirstTableIds == <<"table01", "table02", "table03", "table04">>

ExportTableIds == {FirstTableIds[k] : k \in 1..MaxExportTables}

\* the lists of distinct ids of at most n tables, none empty
ExportTableLists ==
    {ids \in TextsUpTo(ExportTableIds, MaxExportTables) :
        /\ ids # <<>>
        /\ \A i, j \in 1..Len(ids) : i # j => ids[i] # ids[j]}

\* what happens to a table: whether its validation passes, and the formats whose write
\* fails (at most one)
ExportFates ==
    {[passed |-> p, fails |-> fs] :
        p \in BOOLEAN, fs \in {{}} \cup {{f} : f \in FormatNames}}

\* the formats argument: None, the default of the command line, other orders, names that
\* are no format of export_all_formats, a name with a leading space, the empty list
ExportRequests ==
    {NoFormats,
     FormatList(<<>>),
     FormatList(<<"parquet", "csv">>),
     FormatList(<<"json", "csv", "parquet">>),
     FormatList(<<"sqlite">>),
     FormatList(<<"parquet", " csv">>),
     FormatList(<<"sqlite", "json">>)}

(***************************************************************************)
(* Loader: detect_header_and_data_rows over the first cells of the rows    *)
(* of a worksheet (NaN stands for an empty cell).                          *)
(***************************************************************************)

\* most rows of an enumerated worksheet
MaxSheetRows == 4

\* max_row of the scan
ScanLimit == 20

\* the fallback header row and data row, 0-indexed
DefaultHeaderRow == 3

DefaultDataRow == 5

BIE == "bie"        \* U+5225

\* the test of the header row on the stripped text of a first cell
is_header_text(cell_value) ==
    \/ Contains(cell_value, <<NIAN, "(", YUE, ")", BIE>>)
    \/ Contains(cell_value, <<NIAN, YUE, BIE>>)
    \/ cell_value = <<NIAN, YUE>>

\* s[0:n].isdigit()
prefix_isdigit(s, n) ==
    LET prefix == SubSeq(s, 1, IF Len(s) < n THEN Len(s) ELSE n)
    IN prefix # <<>> /\ \A k \in 1..Len(prefix) : IsDigit(prefix[k])

\* the test of the first data row on the stripped text of a first cell
is_data_text(cell_value) ==
    /\ Has(cell_value, NIAN)
    /\ prefix_isdigit(cell_value, 3) \/ prefix_isdigit(cell_value, 2)

\* str(row[0]).strip()
cell_text(cell) == Strip(CellToText(cell))

\* the loop of detect_header_and_data_rows from row i (0-indexed) on; -1 stands for None;
\* the loop is left as soon as the data row is found
RECURSIVE scan_rows(_, _, _, _)
scan_rows(sheet, i, header_row, data_row) ==
    IF i >= Len(sheet) \/ i >= ScanLimit THEN <<header_row, data_row>>
    ELSE IF IsNa(sheet[i + 1]) THEN scan_rows(sheet, i + 1, header_row, data_row)
    ELSE LET cell_value == cell_text(sheet[i + 1])
             header == IF header_row = -1 /\ is_header_text(cell_value) THEN i
                       ELSE header_row
         IN IF data_row = -1 /\ is_data_text(cell_value) THEN <<header, i>>
            ELSE scan_rows(sheet, i + 1, header, data_row)

\* ExcelLoader.detect_header_and_data_rows on the first cells of a worksheet
detect_header_and_data_rows(sheet) ==
    LET found == scan_rows(sheet, 0, -1, -1)
    IN <<IF found[1] = -1 THEN DefaultHeaderRow ELSE found[1],
         IF found[2] = -1 THEN DefaultDataRow ELSE found[2]>>

DetectHeaderAndDataRows ==
    /\ s_op = "none"
    /\ s_op' = "detect_header_and_data_rows"
    /\ s_out' = detect_header_and_data_rows(s_sheet)
    /\ UNCHANGED <<early_vars, trans_vars, export_vars, cache_vars, s_sheet>>

NextSheet == DetectHeaderAndDataRows

\* first cells as they occur in the worksheets: empty, header labels, years and months,
\* a title, a number, other text
SheetFirstCells ==
    {NaN,
     Str(<<NIAN, "(", YUE, ")", BIE>>),
     Str(<<" ", NIAN, YUE, BIE, " ">>),
     Str(<<NIAN, YUE>>),
     Str(<<NIAN, YUE, " ", "a">>),
     Str(<<"1", "0", "4", NIAN>>),
     Str(<<"9", "9", NIAN, "8", YUE>>),
     Str(<<"1", NIAN>>),
     Str(<<"a">>),
     Num(104)}

\* n empty rows
EmptyRows(n) == [i \in 1..n |-> NaN]

\* worksheets whose header or first data row lies at the end of the scanned rows or
\* beyond them
LongSheets ==
    {EmptyRows(ScanLimit - 2) \o <<Str(<<NIAN, YUE, BIE>>), Str(<<"1", "0", "4", NIAN>>)>>,
     EmptyRows(ScanLimit - 1) \o <<Str(<<NIAN, YUE, BIE>>), Str(<<"1", "0", "4", NIAN>>)>>,
     EmptyRows(ScanLimit) \o <<Str(<<NIAN, YUE, BIE>>), Str(<<"1", "0", "4", NIAN>>)>>}

Sheets == TextsUpTo(SheetFirstCells, MaxSheetRows) \cup LongSheets

(***************************************************************************)
(* Cache: should_refresh_cache against a clock that counts seconds.        *)
(***************************************************************************)

\* the last second of the clock
MaxClock == 6

\* the time-to-live values of the model, in seconds
TtlValues == {1, 2, 3}

\* the timestamp None
NoUpdate == -1

\* should_refresh_cache at the second now
should_refresh_cache(last_update, ttl_seconds, now) ==
    IF last_update = NoUpdate THEN TRUE
    ELSE LET age == now - last_update IN age > ttl_seconds

\* a second passes
Tick ==
    /\ k_now < MaxClock
    /\ k_now' = k_now + 1
    /\ k_refresh' = "none"
    /\ UNCHANGED <<early_vars, trans_vars, export_vars, sheet_vars, k_last_update, k_ttl>>

\* the cache is filled: the caller keeps datetime.now() as the time of the last update
RecordUpdate ==
    /\ k_last_update # k_now
    /\ k_last_update' = k_now
    /\ k_refresh' = "none"
    /\ UNCHANGED <<early_vars, trans_vars, export_vars, sheet_vars, k_now, k_ttl>>

\* should_refresh_cache(last_update, ttl_seconds) is called
ShouldRefreshCache ==
    /\ k_refresh = "none"
    /\ k_refresh' = IF should_refresh_cache(k_last_update, k_ttl, k_now) THEN "True"
                    ELSE "False"
    /\ UNCHANGED <<early_vars, trans_vars, export_vars, sheet_vars, k_now, k_last_update,
                   k_ttl>>

NextCache ==
    \/ Tick
    \/ RecordUpdate
    \/ ShouldRefreshCache

(***************************************************************************)
(* Orchestrator                                                            *)
(***************************************************************************)

\* keys of table_file_map
TableFileMap ==
    {"table01", "table02", "table03", "table04", "table05", "table06", "table07", "table08",
     "table09", "table10", "table11", "table12", "table13", "table14", "table15", "table16"}

\* process_all_tables: table01 .. table16 in order
AllTableIds ==
    <<"table01", "table02", "table03", "table04", "table05", "table06", "table07", "table08",
      "table09", "table10", "table11", "table12", "table13", "table14", "table15", "table16">>

\* the default selection of main
PriorityTables == <<"table02", "table08", "table11">>

\* identifiers the --tables argument is drawn from; table99 has no file mapping
CliIds == {"table02", "table08", "table99"}

\* tables whose on-disk condition varies between runs of the model
VariedIds == {"table02", "table08"}

Stages == <<"load", "clean", "transform", "validate", "export">>

StageNames == {Stages[i] : i \in 1..Len(Stages)}

EnvOf(t) == IF t \in DOMAIN env THEN env[t] ELSE [raises |-> "none", passed |-> TRUE]

\* variant: a loader that keeps failing once any table of the run has failed
LoadRaisesAfterFailure(t) ==
    \/ t \notin TableFileMap
    \/ EnvOf(t).raises = "load"
    \/ \E u \in DOMAIN results : ~results[u].success

\* ExcelLoader.load_excel_table raises for an unmapped identifier or a missing/unreadable file
LoadRaises(t) == t \notin TableFileMap \/ EnvOf(t).raises = "load"

\* a stage after the Loader raises
StageRaises(t, stage) == EnvOf(t).raises = stage

\* variant: validation never ends process_table
ValidationNeverBlocks(passed) == FALSE

\* process_table line 112: a failed validation ends process_table
ValidationBlocks(passed) == ~passed

\* variant: the validate-only flag is ignored
ShouldExportAlways(vo) == TRUE

\* process_table line 125
ShouldExport(vo) == ~vo

\* variant: transform runs before clean
NextStageSwapped(stage) ==
    CASE stage = "load" -> "transform"
      [] stage = "transform" -> "clean"
      [] stage = "clean" -> "validate"
      [] OTHER -> "export"

\* the stage process_table runs after `stage` completes
NextStage(stage) ==
    CASE stage = "load" -> "clean"
      [] stage = "clean" -> "transform"
      [] stage = "transform" -> "validate"
      [] OTHER -> "export"

Event(t, stage, outcome) == [k |-> idx, table |-> t, stage |-> stage, outcome |-> outcome]

\* process_multiple_tables line 171, then the next iteration
Return(t, success) ==
    /\ run_results' = (t :> success) @@ run_results
    /\ idx' = idx + 1
    /\ pc' = "loop"

\* variant: the exception leaves process_multiple_tables, skipping the remaining tables
HandleExceptionAbort(t) ==
    /\ results' = (t :> [success |-> FALSE]) @@ results
    /\ run_results' = (t :> FALSE) @@ run_results
    /\ idx' = Len(table_ids) + 1
    /\ pc' = "loop"

\* the except clause of process_table
HandleException(t) ==
    /\ results' = (t :> [success |-> FALSE]) @@ results
    /\ Return(t, FALSE)

\* the "Store result" block of process_table
StoreResult(t) ==
    /\ results' = (t :> [success |-> TRUE]) @@ results
    /\ Return(t, TRUE)

\* main: argument parsing, construction of the pipeline, choice of the selection
Main(mode, ids, vo) ==
    /\ pc = "main"
    /\ validate_only' = vo
    /\ table_ids' = CASE mode = "all" -> AllTableIds
                      [] mode = "tables" -> ids
                      [] OTHER -> PriorityTables
    /\ pc' = "loop"
    /\ UNCHANGED <<late_vars, clean_vars, result_vars, valid_vars, env, idx, results, validation_results, run_results, export_calls,
                   log, summary, exit_code>>

\* head of the for loop of process_multiple_tables
LoopNext ==
    /\ pc = "loop"
    /\ idx <= Len(table_ids)
    /\ pc' = "load"
    /\ UNCHANGED <<late_vars, clean_vars, result_vars, valid_vars, env, table_ids, validate_only, idx, results, validation_results,
                   run_results, export_calls, log, summary, exit_code>>

\* Step 1 of process_table
Load ==
    /\ pc = "load"
    /\ LET t == table_ids[idx] IN
         IF LoadRaises(t)
         THEN /\ log' = Append(log, Event(t, "load", "raise"))
              /\ HandleException(t)
         ELSE /\ log' = Append(log, Event(t, "load", "ok"))
              /\ pc' = NextStage("load")
              /\ UNCHANGED <<idx, results, run_results>>
    /\ UNCHANGED <<late_vars, clean_vars, result_vars, valid_vars, env, table_ids, validate_only, validation_results, export_calls,
                   summary, exit_code>>

\* Steps 2 and 3 of process_table
CleanOrTransform(stage) ==
    /\ pc = stage
    /\ LET t == table_ids[idx] IN
         IF StageRaises(t, stage)
         THEN /\ log' = Append(log, Event(t, stage, "raise"))
              /\ HandleException(t)
         ELSE /\ log' = Append(log, Event(t, stage, "ok"))
              /\ pc' = NextStage(stage)
              /\ UNCHANGED <<idx, results, run_results>>
    /\ UNCHANGED <<late_vars, clean_vars, result_vars, valid_vars, env, table_ids, validate_only, validation_results, export_calls,
                   summary, exit_code>>

Clean == CleanOrTransform("clean")

Transform == CleanOrTransform("transform")

\* Step 4 of process_table, and what follows it when nothing is exported
Validate ==
    /\ pc = "validate"
    /\ LET t == table_ids[idx]
           passed == EnvOf(t).passed
       IN
         IF StageRaises(t, "validate")
         THEN /\ log' = Append(log, Event(t, "validate", "raise"))
              /\ HandleException(t)
              /\ UNCHANGED validation_results
         ELSE /\ log' = Append(log, Event(t, "validate", "ok"))
              /\ validation_results' = (t :> [passed |-> passed]) @@ validation_results
              /\ IF ValidationBlocks(passed)
                 THEN /\ Return(t, FALSE)
                      /\ UNCHANGED results
                 ELSE IF ShouldExport(validate_only)
                      THEN /\ pc' = NextStage("validate")
                           /\ UNCHANGED <<idx, results, run_results>>
                      ELSE StoreResult(t)
    /\ UNCHANGED <<late_vars, clean_vars, result_vars, valid_vars, env, table_ids, validate_only, export_calls, summary, exit_code>>

\* Step 5 of process_table, then the "Store result" block
Export ==
    /\ pc = "export"
    /\ LET t == table_ids[idx] IN
         /\ export_calls' = export_calls \cup {t}
         /\ IF StageRaises(t, "export")
            THEN /\ log' = Append(log, Event(t, "export", "raise"))
                 /\ HandleException(t)
            ELSE /\ log' = Append(log, Event(t, "export", "ok"))
                 /\ StoreResult(t)
    /\ UNCHANGED <<late_vars, clean_vars, result_vars, valid_vars, env, table_ids, validate_only, validation_results, summary, exit_code>>

\* generate_summary_report: the three counts
SummaryOf(res) ==
    LET total == Cardinality(DOMAIN res)
        successful == Cardinality({t \in DOMAIN res : res[t].success})
    IN [total |-> total, successful |-> successful, failed |-> total - successful]

\* variant: the exit status ignores the results
ExitStatusAlwaysZero(rr) == 0

\* main lines 302-305
ExitStatus(rr) == IF \A t \in DOMAIN rr : rr[t] THEN 0 ELSE 1

\* main after process_multiple_tables returns: the summary, then sys.exit
Report ==
    /\ pc = "loop"
    /\ idx > Len(table_ids)
    /\ summary' = SummaryOf(results)
    /\ exit_code' = ExitStatus(run_results)
    /\ pc' = "exit"
    /\ UNCHANGED <<late_vars, clean_vars, result_vars, valid_vars, env, table_ids, validate_only, idx, results, validation_results,
                   run_results, export_calls, log>>

RECURSIVE SeqsUpTo(_, _)
SeqsUpTo(S, n) ==
    IF n = 0 THEN {<<>>}
    ELSE LET shorter == SeqsUpTo(S, n - 1)
         IN shorter \cup {Append(s, x) : s \in shorter, x \in S}

EnvValues == [raises : StageNames \cup {"none"}, passed : BOOLEAN]

\* no table has been handed to the Cleaner
CleanerIdle ==
    /\ raw_df = EmptyDf
    /\ c_table_id = "table08"
    /\ c_op = "none"
    /\ out_df = EmptyDf
    /\ first_df = EmptyDf
    /\ passes = 0
    /\ c_raised = FALSE

\* a fresh ValidationResult on which nothing has been called
ResultIdle ==
    /\ vr = ValidationResult("table08", 0, 0)
    /\ vr_calls = <<>>

\* no table has been handed to the Validator
ValidatorIdle ==
    /\ v_df = Typed(<<>>, <<>>)
    /\ v_table_id = "table08"
    /\ v_op = "none"
    /\ v_result = <<>>
    /\ v_rules = "None"

\* no table has been handed to the Transformer
TransformerIdle ==
    /\ t_df = EmptyDf
    /\ t_op = "none"
    /\ t_args = [a |-> "None", b |-> "None", cols |-> <<>>]
    /\ t_out = <<>>
    /\ t_raised = FALSE

\* no export has been asked for
ExporterIdle ==
    /\ x_fails = <<>>
    /\ x_table_ids = <<>>
    /\ x_formats = [none |-> TRUE, list |-> <<>>]
    /\ x_validate_only = FALSE
    /\ x_idx = 1
    /\ x_pc = "idle"
    /\ x_files = {}
    /\ x_writes = <<>>
    /\ x_paths = <<>>
    /\ x_results = <<>>

\* no worksheet has been opened
SheetIdle ==
    /\ s_sheet = <<>>
    /\ s_op = "none"
    /\ s_out = <<>>

\* the cache helper has not been called
CacheIdle ==
    /\ k_now = 0
    /\ k_last_update = -1
    /\ k_ttl = 1
    /\ k_refresh = "none"

\* the parts modelled after the Validator are at rest
LateIdle ==
    /\ TransformerIdle
    /\ ExporterIdle
    /\ SheetIdle
    /\ CacheIdle

Init ==
    /\ env \in [VariedIds -> EnvValues]
    /\ pc = "main"
    /\ table_ids = <<>>
    /\ validate_only = FALSE
    /\ idx = 1
    /\ results = <<>>
    /\ validation_results = <<>>
    /\ run_results = <<>>
    /\ export_calls = {}
    /\ log = <<>>
    /\ summary = [total |-> 0, successful |-> 0, failed |-> 0]
    /\ exit_code = -1
    /\ CleanerIdle
    /\ ResultIdle
    /\ ValidatorIdle
    /\ LateIdle

Next ==
    \/ \E mode \in {"all", "tables", "default"}, vo \in BOOLEAN :
         \E ids \in (IF mode = "tables" THEN SeqsUpTo(CliIds, MaxTables) \ {<<>>} ELSE {<<>>}) :
            Main(mode, ids, vo)
    \/ LoopNext
    \/ Load
    \/ Clean
    \/ Transform
    \/ Validate
    \/ Export
    \/ Report

Spec == Init /\ [][Next]_vars

\* the Cleaner alone: the pipeline is idle, a raw table is handed to a DataCleaner
PipelineIdle ==
    /\ env = [t \in VariedIds |-> [raises |-> "none", passed |-> TRUE]]
    /\ pc = "main"
    /\ table_ids = <<>>
    /\ validate_only = FALSE
    /\ idx = 1
    /\ results = <<>>
    /\ validation_results = <<>>
    /\ run_results = <<>>
    /\ export_calls = {}
    /\ log = <<>>
    /\ summary = [total |-> 0, successful |-> 0, failed |-> 0]
    /\ exit_code = -1

InitClean ==
    /\ PipelineIdle
    /\ raw_df \in RawTables
    /\ c_table_id \in CleanerTableIds
    /\ c_op = "none"
    /\ out_df = raw_df
    /\ first_df = raw_df
    /\ passes = 0
    /\ c_raised = FALSE
    /\ ResultIdle
    /\ ValidatorIdle
    /\ LateIdle

SpecClean == InitClean /\ [][NextClean]_vars

\* a ValidationResult alone: it is constructed as validate_dataframe constructs it
InitResult ==
    /\ PipelineIdle
    /\ CleanerIdle
    /\ ResultIdle
    /\ ValidatorIdle
    /\ LateIdle

SpecResult == InitResult /\ [][NextResult]_vars

\* the Validator alone: a table and its identifier are handed to a DataValidator
InitValidate ==
    /\ PipelineIdle
    /\ CleanerIdle
    /\ ResultIdle
    /\ v_df \in ValidatorTables
    /\ v_table_id \in ValidatorTableIds
    /\ v_op = "none"
    /\ v_result = <<>>
    /\ v_rules \in ValidatorRules
    /\ LateIdle

SpecValidate == InitValidate /\ [][NextValidate]_vars

\* a Transformer run: one method applied to one table
InitTransform ==
    /\ PipelineIdle
    /\ CleanerIdle
    /\ ResultIdle
    /\ ValidatorIdle
    /\ ExporterIdle
    /\ SheetIdle
    /\ CacheIdle
    /\ t_df \in TransformerTables
    /\ t_op = "none"
    /\ t_args = [a |-> "None", b |-> "None", cols |-> <<>>]
    /\ t_out = <<>>
    /\ t_raised = FALSE

SpecTransform == InitTransform /\ [][NextTransform]_vars

\* a run of process_multiple_tables seen from the exporter
InitExport ==
    /\ PipelineIdle
    /\ CleanerIdle
    /\ ResultIdle
    /\ ValidatorIdle
    /\ TransformerIdle
    /\ SheetIdle
    /\ CacheIdle
    /\ x_table_ids \in ExportTableLists
    /\ x_fails \in [ExportTableIds -> ExportFates]
    /\ x_formats \in ExportRequests
    /\ x_validate_only \in BOOLEAN
    /\ x_idx = 1
    /\ x_pc = "start"
    /\ x_files = {}
    /\ x_writes = <<>>
    /\ x_paths = <<>>
    /\ x_results = <<>>

SpecExport == InitExport /\ [][NextExport]_vars

\* one worksheet handed to the detection of the header row
InitSheet ==
    /\ PipelineIdle
    /\ CleanerIdle
    /\ ResultIdle
    /\ ValidatorIdle
    /\ TransformerIdle
    /\ ExporterIdle
    /\ CacheIdle
    /\ s_sheet \in Sheets
    /\ s_op = "none"
    /\ s_out = <<>>

SpecSheet == InitSheet /\ [][NextSheet]_vars

\* the cache helper with no update recorded yet
InitCache ==
    /\ PipelineIdle
    /\ CleanerIdle
    /\ ResultIdle
    /\ ValidatorIdle
    /\ TransformerIdle
    /\ ExporterIdle
    /\ SheetIdle
    /\ k_now = 0
    /\ k_last_update = NoUpdate
    /\ k_ttl \in TtlValues
    /\ k_refresh = "none"

SpecCache == InitCache /\ [][NextCache]_vars



(***************************************************************************)
(* Cleaner: properties                                                     *)
(***************************************************************************)

\* the substrings the row filter looks for: the growth-rate label, the two share
\* labels, the amount label and the two comparison labels
C8_Substrings ==
    {<<NIAN, ZENG, LYU>>, <<ZHAN, ZONG, CHU, KOU>>, <<ZHAN, BI>>, <<JIN, E_AMOUNT>>,
     <<JIAO, SHANG>>, <<ZENG, JIAN>>}

C8_Dropped(row) ==
    \/ row[1].kind = "nan"
    \/ /\ row[1].kind = "str"
       /\ \/ \E p \in C8_Substrings : Contains(row[1].s, p)
          \/ Has(row[1].s, YUE) /\ ~Has(row[1].s, NIAN)

\* C8: the row filter drops a row if and only if its first cell is missing, or is text
\* containing one of the six substrings, or is text containing the month marker but not
\* the year marker; the other rows are kept in their original order.  A growth-rate
\* label row is excluded, a row whose first cell is "114 nian 1-8 yue" is kept.
C8_RowFilter ==
    (c_op = "remove_sub_header_rows" /\ ~c_raised) =>
        /\ out_df.columns = raw_df.columns
        /\ out_df.rows = SelectSeq(raw_df.rows, LAMBDA row : ~C8_Dropped(row))
        /\ \A j \in 1..Len(out_df.rows) :
              /\ out_df.rows[j][1].kind # "nan"
              /\ out_df.rows[j][1] # Str(<<NIAN, ZENG, LYU>>)
        /\ \A i \in 1..Len(raw_df.rows) :
              (raw_df.rows[i][1] = Str(<<"1", "1", "4", NIAN, "1", "-", "8", YUE>>)) =>
                  \E j \in 1..Len(out_df.rows) : out_df.rows[j] = raw_df.rows[i]

C8_Witness ==
    /\ c_op = "remove_sub_header_rows"
    /\ Len(raw_df.rows) = 2
    /\ raw_df.rows[1][1] = Str(<<NIAN, ZENG, LYU>>)
    /\ raw_df.rows[2][1] = Str(<<"1", "1", "4", NIAN, "1", "-", "8", YUE>>)
    /\ out_df.rows = <<raw_df.rows[2]>>

IsDigits(s) == s # <<>> /\ \A i \in 1..Len(s) : IsDigit(s[i])

\* a token of year plus month: digits, the year marker, one or two digits, the month marker
C9_IsYearMonth(tok) ==
    \E p \in 2..(Len(tok) - 2) :
        /\ tok[p] = NIAN
        /\ tok[Len(tok)] = YUE
        /\ IsDigits(SubSeq(tok, 1, p - 1))
        /\ IsDigits(SubSeq(tok, p + 1, Len(tok) - 1))
        /\ Len(tok) - 1 - p <= 2

\* year-MM for such a token
C9_YearMonthText(tok) ==
    LET p == CHOOSE q \in 1..Len(tok) : tok[q] = NIAN
        year == SubSeq(tok, 1, p - 1)
        month == SubSeq(tok, p + 1, Len(tok) - 1)
    IN year \o <<"-">> \o (IF Len(month) = 1 THEN <<"0">> \o month ELSE month)

\* out is tok without its leading and trailing whitespace
C9_Trimmed(tok, out) ==
    /\ \E i, j \in 0..Len(tok) :
          /\ out = SubSeq(tok, i + 1, j)
          /\ \A k \in 1..i : IsSpace(tok[k])
          /\ \A k \in (j + 1)..Len(tok) : IsSpace(tok[k])
    /\ out # <<>> => ~IsSpace(out[1]) /\ ~IsSpace(out[Len(out)])

\* the clauses of C9 on the year-only and the year-plus-month tokens
C9_MarkerClauses(tok, out) ==
    /\ (Has(tok, NIAN) /\ ~Has(tok, YUE)) =>
          /\ ~Has(out, NIAN)
          /\ SelectSeq(out, LAMBDA c : ~IsSpace(c))
               = SelectSeq(tok, LAMBDA c : ~IsSpace(c) /\ c # NIAN)
    /\ C9_IsYearMonth(tok) => out = C9_YearMonthText(tok)
    /\ (tok = <<"1", "0", "4", NIAN>>) => out = <<"1", "0", "4">>
    /\ (tok = <<"1", "1", "4", NIAN, "8", YUE>>) => out = <<"1", "1", "4", "-", "0", "8">>

C9_Rows == IF c_op = "clean_year_month_column" THEN 1..Len(raw_df.rows) ELSE {}

\* C9 (as stated): a year-only token has the year marker stripped, a year-plus-month token
\* becomes year-MM with a zero-padded month, and a token with neither marker is returned
\* unchanged, character for character.
C9_NeitherMarkerUnchanged ==
    \A i \in C9_Rows :
        (raw_df.rows[i][1].kind = "str") =>
            LET tok == raw_df.rows[i][1].s
                out == out_df.rows[i][1].s
            IN /\ out_df.rows[i][1].kind = "str"
               /\ C9_MarkerClauses(tok, out)
               /\ (~Has(tok, NIAN) /\ ~Has(tok, YUE)) => out = tok

\* C9 (amended): as stated for the two marker cases; a token with neither marker is
\* returned with its leading and trailing whitespace removed and otherwise unchanged
\* (character for character when it has no surrounding whitespace).
C9_PeriodNormalization ==
    \A i \in C9_Rows :
        (raw_df.rows[i][1].kind = "str") =>
            LET tok == raw_df.rows[i][1].s
                out == out_df.rows[i][1].s
            IN /\ out_df.rows[i][1].kind = "str"
               /\ C9_MarkerClauses(tok, out)
               /\ (~Has(tok, NIAN) /\ ~Has(tok, YUE)) =>
                     /\ C9_Trimmed(tok, out)
                     /\ (tok = <<>> \/ (~IsSpace(tok[1]) /\ ~IsSpace(tok[Len(tok)]))) => out = tok

C9_Witness ==
    /\ c_op = "clean_year_month_column"
    /\ raw_df = ExampleTable
    /\ out_df.rows[1][1] = Str(<<"1", "0", "4">>)
    /\ out_df.rows[2][1] = Str(<<"1", "1", "4", "-", "0", "8">>)
    /\ out_df.rows[3][1] = raw_df.rows[3][1]
    /\ out_df.rows[4][1] = Str(<<"1", "1", "4">>)

\* C10: cleaning an already cleaned table changes nothing: no further row is removed, no
\* further column is renamed, no cell value changes.
C10_CleanerIdempotent ==
    (passes = 2) => out_df = first_df

(***************************************************************************)
(* Orchestrator: properties                                                *)
(***************************************************************************)

\* the identifiers of the selection
Selected == {table_ids[k] : k \in 1..Len(table_ids)}

\* the table's file is there and no stage raises for it, validation passes
Processable(t) == t \in TableFileMap /\ EnvOf(t).raises = "none" /\ EnvOf(t).passed

\* what process_table(t) returns, from the table's own condition and the mode alone
ExpectedSuccess(t, vo) ==
    /\ t \in TableFileMap
    /\ EnvOf(t).passed
    /\ \/ EnvOf(t).raises = "none"
       \/ EnvOf(t).raises = "export" /\ vo

Count(S) == Cardinality(S)

\* C1: an exception raised by any stage for one table is caught in process_table, the
\* table is recorded as failed, and every later identifier of the list is still
\* processed; one processable plus one nonexistent identifier give exactly one success
\* and one failure.
C1_FailureIsolated ==
    /\ \A i \in 1..Len(log) :
          (log[i].outcome = "raise") =>
             /\ log[i].table \in DOMAIN results
             /\ ~results[log[i].table].success
             /\ log[i].table \in DOMAIN run_results
             /\ ~run_results[log[i].table]
    /\ (pc = "exit") =>
          /\ \A k \in 1..Len(table_ids) :
                \E i \in 1..Len(log) :
                    log[i].k = k /\ log[i].table = table_ids[k] /\ log[i].stage = "load"
          /\ DOMAIN run_results = Selected
          /\ \A a, b \in Selected :
                (Selected = {a, b} /\ Processable(a) /\ b \notin TableFileMap) =>
                    /\ Count({t \in DOMAIN run_results : run_results[t]}) = 1
                    /\ Count({t \in DOMAIN run_results : ~run_results[t]}) = 1

C1_Witness ==
    /\ pc = "exit"
    /\ table_ids = <<"table99", "table02">>
    /\ Processable("table02")
    /\ run_results["table02"]
    /\ ~run_results["table99"]

\* C2 (as stated): outside validate-only mode a table whose load, clean and transform
\* stages complete and whose validation returns a result is handed to the Exporter even
\* when the result has passed = False.
C2_ExportDespiteFailedValidation ==
    (pc = "exit" /\ ~validate_only) =>
        \A t \in DOMAIN validation_results : t \in export_calls

\* C2 (amended): outside validate-only mode a table whose load, clean and transform
\* stages complete is handed to the Exporter if and only if its ValidationResult has
\* passed = True; with passed = False process_table returns False without exporting.
C2_ExportIffValidationPassed ==
    /\ export_calls \subseteq DOMAIN validation_results
    /\ (pc = "exit" /\ ~validate_only) =>
          \A t \in DOMAIN validation_results :
             /\ (t \in export_calls) <=> validation_results[t].passed
             /\ ~validation_results[t].passed => ~run_results[t]

C2_Witness ==
    /\ pc = "exit"
    /\ ~validate_only
    /\ \E t, u \in DOMAIN validation_results :
          /\ ~validation_results[t].passed /\ t \notin export_calls
          /\ validation_results[u].passed /\ u \in export_calls

\* C3: main exits with status 0 if and only if process_table returned success for every
\* selected table identifier, and with status 1 otherwise.
C3_ExitStatus ==
    /\ (pc # "exit") => exit_code = -1
    /\ (pc = "exit") =>
          /\ exit_code \in {0, 1}
          /\ (exit_code = 0) <=> \A k \in 1..Len(table_ids) :
                                     /\ table_ids[k] \in DOMAIN run_results
                                     /\ run_results[table_ids[k]]
                                     /\ ExpectedSuccess(table_ids[k], validate_only)

C3_Witness ==
    /\ pc = "exit"
    /\ exit_code = 1
    /\ Len(table_ids) = 3
    /\ \E k \in 1..Len(table_ids) : run_results[table_ids[k]]
    /\ \E k \in 1..Len(table_ids) : ~run_results[table_ids[k]]

\* C4 (as stated): the summary counts every processed table: total = number of distinct
\* identifiers processed, successful = number that returned True, failed = number that
\* returned False, whatever the reason for the failure.
C4_SummaryCountsEveryTable ==
    (pc = "exit") =>
        /\ summary.total = Count(Selected)
        /\ summary.successful = Count({t \in Selected : run_results[t]})
        /\ summary.failed = Count({t \in Selected : ~run_results[t]})
        /\ summary.successful + summary.failed = summary.total

\* C5: in validate-only mode the Exporter is never invoked, whether validation passed
\* or failed; success is decided by load, clean, transform and validate alone.
C5_ValidateOnlyNeverExports ==
    validate_only =>
        /\ export_calls = {}
        /\ \A i \in 1..Len(log) : log[i].stage # "export"
        /\ \A t \in DOMAIN run_results :
              run_results[t] <=> /\ t \in TableFileMap
                                 /\ EnvOf(t).raises \notin {"load", "clean", "transform", "validate"}
                                 /\ EnvOf(t).passed

C5_Witness ==
    /\ pc = "exit"
    /\ validate_only
    /\ \E t, u \in DOMAIN validation_results :
          /\ validation_results[t].passed /\ run_results[t] /\ EnvOf(t).raises = "export"
          /\ ~validation_results[u].passed /\ ~run_results[u]

StageIndex(stage) == CHOOSE i \in 1..Len(Stages) : Stages[i] = stage

\* C6: process_table runs load, clean, transform, validate, export in that order, each
\* stage starting only after the previous stage of the same table completed without
\* exception; every stage of the k-th table is over before the (k+1)-th table starts.
C6_StageOrder ==
    \A i \in 1..Len(log) :
        LET e == log[i] IN
        /\ e.table = table_ids[e.k]
        /\ e.k <= idx
        /\ IF e.stage = "load"
           THEN \/ i = 1 /\ e.k = 1
                \/ i > 1 /\ log[i - 1].k = e.k - 1
           ELSE /\ i > 1
                /\ log[i - 1].k = e.k
                /\ log[i - 1].outcome = "ok"
                /\ StageIndex(log[i - 1].stage) + 1 = StageIndex(e.stage)
        /\ (pc \in StageNames /\ i = Len(log)) =>
              IF pc = "load" THEN e.k = idx - 1
              ELSE e.k = idx /\ e.outcome = "ok" /\ StageIndex(e.stage) + 1 = StageIndex(pc)

C6_Witness ==
    /\ pc = "exit"
    /\ Len(table_ids) = 2
    /\ Len(log) = 2 * Len(Stages)
    /\ \A i \in 1..Len(log) : log[i].outcome = "ok"

SameEntry(m1, m2, u) ==
    /\ (u \in DOMAIN m1) <=> (u \in DOMAIN m2)
    /\ (u \in DOMAIN m1) => m1[u] = m2[u]

\* C7: processing table t changes only the entries keyed by t in the results map, the
\* validation-results map and the returned success map, and the outcome of t is the same
\* whichever tables were processed before it.
C7_TableIndependence ==
    /\ [](\A t \in DOMAIN run_results : run_results[t] <=> ExpectedSuccess(t, validate_only))
    /\ [][\A u \in TableFileMap \cup CliIds :
            (pc \in StageNames /\ u # table_ids[idx]) =>
                /\ SameEntry(results, results', u)
                /\ SameEntry(validation_results, validation_results', u)
                /\ SameEntry(run_results, run_results', u)]_vars

C7_Witness ==
    /\ pc = "exit"
    /\ Len(table_ids) = 3
    /\ ~run_results[table_ids[1]]
    /\ ~run_results[table_ids[2]]
    /\ table_ids[1] # table_ids[2]
    /\ run_results[table_ids[3]]

(***************************************************************************)
(* Cleaner: the tables clean_dataframe returns                             *)
(***************************************************************************)

\* clean_dataframe has been applied and has returned a table
CleanReturned == c_op = "clean_dataframe" /\ ~c_raised

\* the literal tokens that stand for a missing value
C11_Literals == {<<"-">>, <<".", ".", ".">>, <<FWSP>>, <<>>}

\* C11: in every table returned by clean_dataframe no period value (first column)
\* equals one of the missing-value literals '-', '...', the full-width space or the
\* empty text, whatever the raw first cells were.
C11_NoMissingLiteralInPeriod ==
    CleanReturned =>
        \A i \in 1..Len(out_df.rows) :
            ~(out_df.rows[i][1].kind = "str" /\ out_df.rows[i][1].s \in C11_Literals)

\* a bare year, or year-MM with a two-digit month
C12_IsCanonical(s) ==
    \/ IsDigits(s)
    \/ /\ Len(s) >= 4
       /\ s[Len(s) - 2] = "-"
       /\ IsDigits(SubSeq(s, 1, Len(s) - 3))
       /\ IsDigits(SubSeq(s, Len(s) - 1, Len(s)))

C12_IsYearOnly(tok) ==
    /\ Len(tok) >= 2
    /\ tok[Len(tok)] = NIAN
    /\ IsDigits(SubSeq(tok, 1, Len(tok) - 1))

\* the rows of the raw table the row filter keeps
C12_Kept == SelectSeq(raw_df.rows, LAMBDA row : ~C8_Dropped(row))

C13_NeverRaises ==
    (c_op = "clean_dataframe" /\ Len(raw_df.rows) > 0) => ~c_raised

\* C14: in every table returned by clean_dataframe each cell of every column but the
\* first is a number or the missing marker; no text survives, also when two columns
\* carry the same name after renaming.
C14_ValueCellsNumeric ==
    CleanReturned =>
        \A i \in 1..Len(out_df.rows) : \A j \in 2..Len(out_df.rows[i]) :
            out_df.rows[i][j].kind \in {"num", "nan"}

(***************************************************************************)
(* Validator: properties                                                   *)
(***************************************************************************)

\* C15: from a fresh ValidationResult (passed, no entries), after any sequence of
\* add_error and add_warning calls passed is False exactly when add_error was called
\* at least once, which is exactly when the error list is not empty; add_warning
\* never changes passed, and passed never returns from False to True.
C15_PassedIffNoError ==
    /\ [](/\ vr.passed <=> (vr.errors = <<>>)
          /\ (~vr.passed) <=> (\E i \in 1..Len(vr_calls) : vr_calls[i] = "add_error"))
    /\ [][/\ (vr_calls' = Append(vr_calls, "add_warning")) => (vr'.passed = vr.passed)
          /\ (~vr.passed) => ~vr'.passed]_vars

\* a warning, an error and another warning: the result has failed and stays so
C15_Witness ==
    /\ vr_calls = <<"add_warning", "add_error", "add_warning">>
    /\ ~vr.passed
    /\ Len(vr.errors) = 1
    /\ Len(vr.warnings) = 2

\* validate_dataframe has been applied to the table
Validated == v_op = "validate_dataframe"

\* C16: validate_dataframe on a table without rows returns passed = False with exactly
\* one error, the one saying the table is empty, and no warning: none of the period,
\* negative-value and growth-rate checks runs, whatever the columns are.
C16_EmptyTable ==
    (Validated /\ Len(v_df.rows) = 0) =>
        /\ ~v_result.passed
        /\ v_result.errors = <<Msg("empty", "", 0)>>
        /\ v_result.warnings = <<>>
        /\ v_result.row_count = 0

\* a table without rows whose columns would each draw a warning if the checks ran
C16_Witness ==
    /\ Validated
    /\ v_df.columns = <<"period", "total_export_growth_rate_pct">>
    /\ v_df.rows = <<>>
    /\ v_result.errors = <<Msg("empty", "", 0)>>

\* the labels of the model that contain 'year', 'value', and 'growth' or 'rate'
C19_YearLabels == {"year_month", "fiscal_Year"}

C17_ValueLabels == {"total_export_value_usd_million"}

C18_GrowthLabels == {"total_export_growth_rate_pct", "Exchange_Rate"}

\* the numbers held by the column at position j
ColumnNumbers(j) ==
    {i \in 1..Len(v_df.rows) : v_df.rows[i][j].kind = "num"}

\* the column at position j holds numbers and missing values only
IsNumericColumn(j) == \A i \in 1..Len(v_df.rows) : v_df.rows[i][j].kind # "str"

\* the text of a period value is all digits or contains the separator
C19_ValidCell(j, cell) ==
    LET text == ValText(v_df, j, cell)
    IN IsDigits(text) \/ \E p \in 1..Len(text) : text[p] = "-"

\* the rows of the column at position j whose value is present and not valid
C19_Invalid(j) ==
    {i \in 1..Len(v_df.rows) : ~IsNa(v_df.rows[i][j]) /\ ~C19_ValidCell(j, v_df.rows[i][j])}

\* positions of the columns whose label contains 'year'
C19_YearColumns == {j \in 1..Len(v_df.columns) : v_df.columns[j] \in C19_YearLabels}

\* the first of them, the period column
C19_PeriodColumn == CHOOSE j \in C19_YearColumns : \A k \in C19_YearColumns : j <= k

\* the table has rows and a period column all of whose present values are valid
C17_ValidPeriod ==
    /\ Len(v_df.rows) > 0
    /\ C19_YearColumns # {}
    /\ C19_Invalid(C19_PeriodColumn) = {}

\* C17: for a table with rows and a valid period column, negative values in 'value'
\* columns and extreme values in 'growth' / 'rate' columns are reported as warnings
\* only and passed stays True; a one-row table whose only anomaly is a growth rate of
\* 1500 yields passed = True, no error and exactly one warning, naming that column.
C17_AnomaliesAreWarnings ==
    (Validated /\ C17_ValidPeriod) =>
        /\ v_result.passed
        /\ v_result.errors = <<>>
        /\ \A j \in 1..Len(v_df.columns) :
              /\ (/\ v_df.columns[j] \in C17_ValueLabels
                  /\ IsNumericColumn(j)
                  /\ \E i \in ColumnNumbers(j) : v_df.rows[i][j].n < 0) =>
                     \E w \in 1..Len(v_result.warnings) :
                         /\ v_result.warnings[w].rule = "negative"
                         /\ v_result.warnings[w].column = v_df.columns[j]
              /\ (/\ v_df.columns[j] \in C18_GrowthLabels
                  /\ IsNumericColumn(j)
                  /\ \E i \in ColumnNumbers(j) :
                        v_df.rows[i][j].n > 1000 \/ v_df.rows[i][j].n < -100) =>
                     \E w \in 1..Len(v_result.warnings) :
                         /\ v_result.warnings[w].rule \in {"extreme_high", "extreme_low"}
                         /\ v_result.warnings[w].column = v_df.columns[j]
        /\ (/\ v_df.columns = <<"year_month", "total_export_growth_rate_pct">>
            /\ v_df.rows = << <<Str(<<"1", "1", "4", "-", "0", "8">>), Num(1500)>> >>) =>
               v_result.warnings = <<Msg("extreme_high", "total_export_growth_rate_pct", 1)>>

\* a negative value, a rate above 1000 and a rate below -100 in one table: three
\* warnings, no error
C17_Witness ==
    /\ Validated
    /\ v_df.columns = <<"year_month", "total_export_value_usd_million",
                        "total_export_growth_rate_pct">>
    /\ v_result.passed
    /\ Len(v_result.warnings) = 3

\* the count carried by the warning of that rule on that column, 0 without one
C18_Warned(rule, col) ==
    LET ws == {w \in 1..Len(v_result.warnings) :
                 v_result.warnings[w].rule = rule /\ v_result.warnings[w].column = col}
    IN IF ws = {} THEN 0 ELSE v_result.warnings[CHOOSE w \in ws : TRUE].count

\* positions of the numeric columns whose label contains 'growth' or 'rate'
C18_GrowthColumns ==
    {j \in 1..Len(v_df.columns) : v_df.columns[j] \in C18_GrowthLabels /\ IsNumericColumn(j)}

\* C18 (as stated): for every numeric 'growth' / 'rate' column validate_dataframe
\* counts and warns about exactly the values outside (-100, 1000], that is every v
\* with v <= -100 or v > 1000; a column inside the interval draws no growth warning.
C18_OutsideHalfOpenInterval ==
    (Validated /\ Len(v_df.rows) > 0) =>
        \A j \in C18_GrowthColumns :
            C18_Warned("extreme_high", v_df.columns[j]) + C18_Warned("extreme_low", v_df.columns[j])
              = Cardinality({i \in ColumnNumbers(j) :
                               v_df.rows[i][j].n <= -100 \/ v_df.rows[i][j].n > 1000})

\* C18 (amended): for every numeric 'growth' / 'rate' column validate_dataframe warns
\* about exactly the values v > 1000, counted in one warning, and the values v < -100,
\* counted in another; -100 itself is not reported, and a column whose values all lie
\* in [-100, 1000] draws no growth warning.  No other column draws one.
C18_OutsideClosedInterval ==
    (Validated /\ Len(v_df.rows) > 0) =>
        /\ \A j \in C18_GrowthColumns :
              /\ C18_Warned("extreme_high", v_df.columns[j])
                   = Cardinality({i \in ColumnNumbers(j) : v_df.rows[i][j].n > 1000})
              /\ C18_Warned("extreme_low", v_df.columns[j])
                   = Cardinality({i \in ColumnNumbers(j) : v_df.rows[i][j].n < -100})
        /\ \A w \in 1..Len(v_result.warnings) :
              v_result.warnings[w].rule \in {"extreme_high", "extreme_low"} =>
                  /\ v_result.warnings[w].count > 0
                  /\ \E j \in C18_GrowthColumns : v_df.columns[j] = v_result.warnings[w].column
                  /\ \A x \in 1..Len(v_result.warnings) :
                        (/\ v_result.warnings[x].rule = v_result.warnings[w].rule
                         /\ v_result.warnings[x].column = v_result.warnings[w].column) => x = w

\* a rate column under an upper-case label holding -100 and 1001: only 1001 is reported
C18_Witness ==
    /\ Validated
    /\ v_df.columns = <<"year_month", "Exchange_Rate">>
    /\ Len(v_df.rows) = 2
    /\ v_df.rows[1][2] = Num(-100)
    /\ v_df.rows[2][2] = Num(1001)
    /\ C18_Warned("extreme_high", "Exchange_Rate") = 1
    /\ C18_Warned("extreme_low", "Exchange_Rate") = 0

\* C19: the first column whose label contains 'year' is the period column; each of its
\* present values is valid iff its text is all digits or contains '-'; with k >= 1
\* invalid values exactly one error is recorded, it carries k, and passed is False;
\* with none invalid the rule records no error.
C19_PeriodFormat ==
    (Validated /\ Len(v_df.rows) > 0 /\ C19_YearColumns # {}) =>
        LET k == Cardinality(C19_Invalid(C19_PeriodColumn))
        IN /\ k >= 1 =>
                /\ v_result.errors
                     = <<Msg("invalid_format", v_df.columns[C19_PeriodColumn], k)>>
                /\ ~v_result.passed
           /\ k = 0 => v_result.errors = <<>> /\ v_result.passed

\* two invalid period values, one of them the empty text: one error carrying 2
C19_Witness ==
    /\ Validated
    /\ v_df.columns = <<"fiscal_Year">>
    /\ v_df.rows = << <<Str(<<"a", "b", "c">>)>>, <<Str(<<>>)>> >>
    /\ v_result.errors = <<Msg("invalid_format", "fiscal_Year", 2)>>
    /\ ~v_result.passed

\* C20: for a table identifier that has a schema (table08, table02) validate_dataframe
\* reports a type-mismatch error for every column whose storage type is outside the
\* equivalence class of the type the schema expects.
C20_SchemaApplied ==
    (Validated /\ Len(v_df.rows) > 0 /\ v_table_id \in DOMAIN SCHEMAS) =>
        \A e \in 1..Len(SCHEMAS[v_table_id]) : \A j \in 1..Len(v_df.columns) :
            (/\ v_df.columns[j] = SCHEMAS[v_table_id][e][1]
             /\ v_df.dtypes[j] \notin type_matches[SCHEMAS[v_table_id][e][2]]) =>
                \E x \in 1..Len(v_result.errors) :
                    /\ v_result.errors[x].rule = "type_mismatch"
                    /\ v_result.errors[x].column = v_df.columns[j]

(***************************************************************************)
(* Transformer: properties                                                 *)
(***************************************************************************)

\* the call recorded in t_op has returned
Transformed(op) == t_op = op /\ ~t_raised

\* the value column of the recorded call, when it is a column of the table
ValueColumnCells == Column(t_df, t_args.a)

\* entry i of t_out is (cur - prev) / prev * 100, for a non-zero prev
C21_IsGrowth(entry, cur, prev) ==
    IF IsNa(cur) THEN entry = RNaN
    ELSE /\ entry.kind = "num"
         /\ entry.num * prev.n = (cur.n - prev.n) * 100 * entry.den

C21_ExampleTable ==
    [columns |-> <<"exports">>, rows |-> << <<Num(100)>>, <<Num(110)>>, <<Num(121)>> >>]

\* C21: calculate_growth_rate on a value column of n rows returns n entries aligned by
\* row position; entry 0 is missing, and entry i, for i >= 1 and a non-zero previous value,
\* is (v[i] - v[i-1]) / v[i-1] * 100; the values 100, 110, 121 give missing, 10, 10
C21_GrowthRate ==
    (Transformed("calculate_growth_rate") /\ HasColumn(t_df, t_args.a)) =>
        /\ Len(t_out) = Len(t_df.rows)
        /\ Len(t_out) >= 1 => t_out[1] = RNaN
        /\ \A i \in 2..Len(t_out) :
              (~IsNa(ValueColumnCells[i - 1]) /\ ValueColumnCells[i - 1].n # 0) =>
                  C21_IsGrowth(t_out[i], ValueColumnCells[i], ValueColumnCells[i - 1])
        /\ t_df = C21_ExampleTable => t_out = <<RNaN, Ratio(10, 1), Ratio(10, 1)>>

C21_Witness ==
    /\ Transformed("calculate_growth_rate")
    /\ t_df = C21_ExampleTable
    /\ t_args.a = "exports"
    /\ t_out = <<RNaN, Ratio(10, 1), Ratio(10, 1)>>

\* the group column of the recorded call, when it is a column of the table
GroupColumnCells == Column(t_df, t_args.b)

\* row i is the first row of its group
C22_FirstOfGroup(i) == \A k \in 1..(i - 1) : GroupColumnCells[k] # GroupColumnCells[i]

\* C22: with a group_by_column supplied, calculate_growth_rate takes the lag within each
\* group: the first row of every group is missing, and no growth is computed from the last
\* value of one group to the first value of the next
C22_LagWithinGroup ==
    (/\ Transformed("calculate_growth_rate")
     /\ HasColumn(t_df, t_args.a)
     /\ t_args.b # "None"
     /\ HasColumn(t_df, t_args.b)) =>
        \A i \in 1..Len(t_out) : C22_FirstOfGroup(i) => t_out[i] = RNaN

\* a column the recorded call refers to is no column of the table
C23_ColumnAbsent ==
    \/ ~HasColumn(t_df, t_args.a)
    \/ t_args.b # "None" /\ ~HasColumn(t_df, t_args.b)

\* C23: calculate_growth_rate, calculate_market_share and calculate_cumulative_sum, when a
\* column they refer to (the value column, the total column, the reset or group column) is
\* absent, return one missing entry per row and raise no exception
C23_AbsentColumnAllMissing ==
    (/\ t_op \in {"calculate_growth_rate", "calculate_market_share",
                  "calculate_cumulative_sum"}
     /\ C23_ColumnAbsent) =>
        /\ ~t_raised
        /\ t_out = AllMissing(t_df)

\* the sum of the numbers of column j over rows; missing numbers are skipped
RECURSIVE ColumnTotal(_, _)
ColumnTotal(rows, j) ==
    IF rows = <<>> THEN 0
    ELSE ColumnTotal(Tail(rows), j) + (IF IsNa(Head(rows)[j]) THEN 0 ELSE Head(rows)[j].n)

\* the period cells of the table of the recorded call
DateColumnCells == Column(t_df, t_args.a)

\* a token year-MM with MM in 01..12, the year being digits
C24_IsYearMonth(cell) ==
    /\ cell.kind = "str"
    /\ Len(cell.s) >= 4
    /\ cell.s[Len(cell.s) - 2] = "-"
    /\ IsDigits(SubSeq(cell.s, 1, Len(cell.s) - 3))
    /\ IsDigits(SubSeq(cell.s, Len(cell.s) - 1, Len(cell.s)))
    /\ DigitsValue(SubSeq(cell.s, Len(cell.s) - 1, Len(cell.s))) \in 1..12

\* year-Qn for a token year-MM, n being the quarter the month lies in
C24_QuarterToken(cell) ==
    LET year == SubSeq(cell.s, 1, Len(cell.s) - 3)
        month == DigitsValue(SubSeq(cell.s, Len(cell.s) - 1, Len(cell.s)))
        n == CHOOSE q \in 1..4 : 3 * (q - 1) < month /\ month <= 3 * q
    IN Str(year \o <<"-", "Q", DigitChars[n + 1]>>)

\* the key of input row i: the quarter token of a year-MM token, else the period itself
C24_Key(i) ==
    IF C24_IsYearMonth(DateColumnCells[i]) THEN C24_QuarterToken(DateColumnCells[i])
    ELSE DateColumnCells[i]

\* the input rows whose key is key
C24_RowsOf(key) ==
    LET F[i \in 0..Len(t_df.rows)] ==
            IF i = 0 THEN <<>>
            ELSE IF C24_Key(i) = key THEN Append(F[i - 1], t_df.rows[i]) ELSE F[i - 1]
    IN F[Len(t_df.rows)]

\* the input rows whose period is not missing
C24_DatedRows ==
    LET F[i \in 0..Len(t_df.rows)] ==
            IF i = 0 THEN <<>>
            ELSE IF ~IsNa(DateColumnCells[i]) THEN Append(F[i - 1], t_df.rows[i])
                 ELSE F[i - 1]
    IN F[Len(t_df.rows)]

\* the requested value columns that are columns of the table
C24_Present == SelectSeq(t_args.cols, LAMBDA col : HasColumn(t_df, col))

\* the periods of the table are missing, year-MM tokens or texts without a hyphen
C24_PlainPeriods ==
    \A i \in 1..Len(t_df.rows) :
        \/ IsNa(DateColumnCells[i])
        \/ C24_IsYearMonth(DateColumnCells[i])
        \/ DateColumnCells[i].kind = "str" /\ ~Has(DateColumnCells[i].s, "-")

\* the output has one row per distinct key, and column c of a row holds the sum of the
\* requested column over exactly the input rows of that key
C24_RowPerKeyWithSums(keys) ==
    /\ {t_out.rows[g][1] : g \in 1..Len(t_out.rows)} = keys
    /\ Len(t_out.rows) = Cardinality(keys)
    /\ \A g \in 1..Len(t_out.rows) : \A c \in 1..Len(C24_Present) :
          t_out.rows[g][c + 1] =
              Num(ColumnTotal(C24_RowsOf(t_out.rows[g][1]),
                              ColumnIndex(t_df, C24_Present[c])))

\* C24 as stated: create_quarterly_aggregation maps every year-MM token to year-Qn,
\* returns one row per distinct quarter token, each requested value column holding the sum
\* over exactly the rows mapped to that token, so that each column's total over the output
\* equals its total over the input
C24_TotalsPreserved ==
    (/\ Transformed("create_quarterly_aggregation")
     /\ C24_PlainPeriods
     /\ C24_Present = t_args.cols) =>
        /\ t_out.columns = <<"quarter">> \o t_args.cols
        /\ C24_RowPerKeyWithSums({C24_Key(i) : i \in 1..Len(t_df.rows)} \ {NaN})
        /\ \A c \in 1..Len(t_args.cols) :
              ColumnTotal(t_out.rows, c + 1)
                  = ColumnTotal(t_df.rows, ColumnIndex(t_df, t_args.cols[c]))

\* C24 (amended): for periods that are missing, year-MM tokens or texts without a hyphen,
\* and at least one requested value column present, the output has one row per distinct
\* key of the rows whose period is not missing (year-Qn for a year-MM token, the period
\* itself otherwise) and one column per requested column that is present, holding the sum
\* over exactly the rows of that key; each such column's total over the output equals its
\* total over the input rows whose period is not missing
C24_QuarterlySums ==
    (/\ Transformed("create_quarterly_aggregation")
     /\ C24_PlainPeriods
     /\ C24_Present # <<>>) =>
        /\ t_out.columns = <<"quarter">> \o C24_Present
        /\ C24_RowPerKeyWithSums({C24_Key(i) : i \in 1..Len(t_df.rows)} \ {NaN})
        /\ \A c \in 1..Len(C24_Present) :
              ColumnTotal(t_out.rows, c + 1)
                  = ColumnTotal(C24_DatedRows, ColumnIndex(t_df, C24_Present[c]))

C24_Witness ==
    /\ Transformed("create_quarterly_aggregation")
    /\ t_args.cols = <<"exports", "imports">>
    /\ Len(t_df.rows) = 5
    /\ t_out.rows = << <<Str(<<"2", "0", "2", "4", "-", "Q", "4">>), Num(1), Num(0)>>,
                       <<Str(<<"2", "0", "2", "5", "-", "Q", "3">>), Num(10), Num(12)>>,
                       <<Str(<<"2", "0", "2", "5", "-", "Q", "4">>), Num(5), Num(8)>> >>

(***************************************************************************)
(* Exporter: properties                                                    *)
(***************************************************************************)

\* the requested names that export_all_formats knows
RecognisedRequest ==
    {f \in FormatNames :
        \E k \in 1..Len(resolved(x_formats)) : resolved(x_formats)[k] = f}

\* the position of a format in the order parquet, csv, json
FormatRank(format) == CHOOSE k \in 1..Len(FormatOrder) : FormatOrder[k] = format

\* the table of outcome k reached step 5 and the write of one of the requested formats
\* fails
WriteFails(k) ==
    /\ x_fails[x_results[k].table_id].passed
    /\ ~x_validate_only
    /\ x_fails[x_results[k].table_id].fails \cap RecognisedRequest # {}

\* C25: a write failure in any one export format is not swallowed: export_all_formats
\* raises it to process_table, which records the table as failed and returns False, and
\* process_multiple_tables goes on with the remaining tables
C25_WriteFailureFailsTable ==
    /\ Len(x_results) = x_idx - 1
    /\ \A k \in 1..Len(x_results) :
          /\ x_results[k].table_id = x_table_ids[k]
          /\ WriteFails(k) =>
                /\ ~x_results[k].returned
                /\ x_results[k].stored = "failed"
                /\ ~x_results[k].exported

C25_Witness ==
    /\ Len(x_results) = 2
    /\ WriteFails(1)
    /\ x_results[1].stored = "failed"
    /\ ~WriteFails(2)
    /\ x_results[2].exported
    /\ x_results[2].stored = "success"

\* the files of a table on disk
FilesOf(table_id) == {f \in x_files : f[1] = table_id}

\* the keys of the map export_all_formats returned for outcome k
KeysOf(k) == {x_results[k].keys[j] : j \in 1..Len(x_results[k].keys)}

\* C29: export_all_formats returns a map whose keys are exactly the requested names among
\* parquet, csv, json; any other requested name is ignored without error, so a table
\* processed with only unrecognised names is reported as a success although no file is
\* written
C29_KeysAreRecognisedRequest ==
    \A k \in 1..Len(x_results) :
        /\ x_results[k].exported =>
              /\ KeysOf(k) = RecognisedRequest
              /\ Len(x_results[k].keys) = Cardinality(RecognisedRequest)
        /\ (/\ x_fails[x_results[k].table_id].passed
            /\ ~x_validate_only
            /\ RecognisedRequest = {}) =>
                /\ x_results[k].exported
                /\ x_results[k].returned
                /\ x_results[k].stored = "success"
                /\ FilesOf(x_results[k].table_id) = {}

C29_Witness ==
    /\ x_formats = FormatList(<<"sqlite">>)
    /\ Len(x_results) = 1
    /\ x_results[1].exported
    /\ x_results[1].returned
    /\ x_results[1].keys = <<>>
    /\ x_files = {}

\* the writes of x_writes follow the order parquet, csv, json within each table
C30_FixedOrder ==
    \A i, j \in 1..Len(x_writes) :
        (i < j /\ x_writes[i][1] = x_writes[j][1]) =>
            FormatRank(x_writes[i][2]) < FormatRank(x_writes[j][2])

\* C30: the export is not atomic across formats: the writes go in the order parquet, csv,
\* json whatever the order of the request; when the write of a later format fails, the
\* files already written stay on disk while the table is recorded as failed; a table
\* recorded as successful in a run that is not validate-only has a file for every
\* requested format among the three
C30_NotAtomic ==
    /\ C30_FixedOrder
    /\ \A k \in 1..Len(x_results) :
          /\ WriteFails(k) =>
                /\ x_results[k].stored = "failed"
                /\ \A f \in RecognisedRequest :
                      (\A g \in x_fails[x_results[k].table_id].fails :
                           FormatRank(f) < FormatRank(g)) =>
                          <<x_results[k].table_id, f>> \in x_files
          /\ (x_results[k].stored = "success" /\ ~x_validate_only) =>
                \A f \in RecognisedRequest : <<x_results[k].table_id, f>> \in x_files

C30_Witness ==
    /\ x_formats = FormatList(<<"json", "csv", "parquet">>)
    /\ Len(x_results) = 1
    /\ x_fails[x_results[1].table_id].fails = {"json"}
    /\ x_results[1].stored = "failed"
    /\ x_writes = << <<x_results[1].table_id, "parquet">>, <<x_results[1].table_id, "csv">> >>
    /\ x_files = {<<x_results[1].table_id, "parquet">>, <<x_results[1].table_id, "csv">>}

(***************************************************************************)
(* Loader: properties                                                      *)
(***************************************************************************)

\* the scanned rows whose first cell satisfies the header test, and the data test
C26_HeaderRows ==
    {i \in 0..(ScanLimit - 1) :
        i < Len(s_sheet) /\ ~IsNa(s_sheet[i + 1]) /\ is_header_text(cell_text(s_sheet[i + 1]))}

C26_DataRows ==
    {i \in 0..(ScanLimit - 1) :
        i < Len(s_sheet) /\ ~IsNa(s_sheet[i + 1]) /\ is_data_text(cell_text(s_sheet[i + 1]))}

\* the least number of a non-empty set of numbers, else the fallback
C26_FirstOr(rows, fallback) ==
    IF rows = {} THEN fallback ELSE CHOOSE i \in rows : \A j \in rows : i <= j

\* C26: detect_header_and_data_rows, scanning at most the first 20 rows, returns (h, d): h
\* is the index of the first row whose first cell holds a header label, or 3; d is the
\* index of the first row whose first cell holds the year marker and begins with two or
\* three digits, or 5; the two are found independently of each other
C26_IndependentDetection ==
    s_op = "detect_header_and_data_rows" =>
        /\ s_out[1] = C26_FirstOr(C26_HeaderRows, DefaultHeaderRow)
        /\ s_out[2] = C26_FirstOr(C26_DataRows, DefaultDataRow)

(***************************************************************************)
(* Cache: properties                                                       *)
(***************************************************************************)

\* C27: an entry recorded at t0 is fresh at now exactly when now - t0 < ttl:
\* should_refresh_cache returns True exactly when last_update is None or the age is at
\* least ttl, an age equal to ttl included
C27_RefreshIffExpired ==
    k_refresh # "none" =>
        (k_refresh = "True" <=> (k_last_update = NoUpdate \/ k_now - k_last_update >= k_ttl))

(***************************************************************************)
(* Validator: what makes a table fail                                      *)
(***************************************************************************)

\* the table has a period column with at least one present value that is not valid
C28_InvalidPeriod == C19_YearColumns # {} /\ C19_Invalid(C19_PeriodColumn) # {}

\* C28: validate_dataframe returns passed = False if and only if the table is empty or
\* the first column whose label contains 'year' holds a present value that is neither
\* all digits nor contains '-'; an absent period column, negative values, extreme growth
\* rates, missing values and the rules argument never make passed False
C28_FailsIffEmptyOrInvalidPeriod ==
    Validated => (~v_result.passed <=> (df_empty(v_df) \/ C28_InvalidPeriod))

\* a table with a negative value and two extreme growth rates, validated with rules
C28_Witness ==
    /\ Validated
    /\ v_rules = "no_negative_values"
    /\ v_df.columns = <<"year_month", "total_export_value_usd_million",
                        "total_export_growth_rate_pct">>
    /\ \E i \in 1..Len(v_df.rows) : v_df.rows[i][2] = Num(-1)
    /\ Len(v_result.warnings) >= 2
    /\ v_result.passed

=============================================================================
